---- MODULE Spec2Model ----
(***************************************************************************)
(* A model of wayland_display.c: a hand-written Wayland client.  The wire  *)
(* codec works on bytes, the identifier allocator on 32-bit values, and    *)
(* the event loop of main() is a state machine whose inputs are the bytes  *)
(* the compositor sends and the results of the system calls.               *)
(***************************************************************************)
EXTENDS Integers, Sequences, FiniteSets, TLC

(***************************************************************************)
(* 32-bit unsigned values.  A uint32_t is the pair <<high half, low half>> *)
(* of its 16-bit halves, so that values up to 0xffffffff and the wrap at   *)
(* 2^32 are exact.                                                         *)
(***************************************************************************)
W16 == 2^16

U32(n) == <<n \div W16, n % W16>>

ToInt(v) == v[1] * W16 + v[2]

Add32(v, k) ==
  LET lo == v[2] + k
  IN  <<(v[1] + (lo \div W16)) % W16, lo % W16>>

Lt32(a, b) == a[1] < b[1] \/ (a[1] = b[1] /\ a[2] < b[2])

Gt32(a, b) == Lt32(b, a)

Zero32 == <<0, 0>>

IsZero32(v) == v = Zero32

\* The four bytes of a uint32_t in memory (little-endian host).
Bytes32(v) == <<v[2] % 256, v[2] \div 256, v[1] % 256, v[1] \div 256>>

Max(a, b) == IF a >= b THEN a ELSE b

Min(a, b) == IF a <= b THEN a ELSE b

(***************************************************************************)
(* Program constants.                                                      *)
(***************************************************************************)
WAYLAND_DISPLAY_OBJECT_ID == 1
WAYLAND_DISPLAY_GET_REGISTRY_OPCODE == 1
WAYLAND_REGISTRY_BIND_OPCODE == 0
WAYLAND_REGISTRY_GLOBAL_EVENT == 0
WAYLAND_DISPLAY_ERROR_EVENT == 0
WAYLAND_SHM_FORMAT_EVENT == 0
XDG_WM_PING_EVENT == 0
XDG_SURFACE_CONFIGURE_EVENT == 0
XDG_TOPLEVEL_CONFIGURE_EVENT == 0
IMAGE_WIDTH == 256
IMAGE_HEIGHT == 256
COLOR_CHANNELS == 4

\* SurfaceState
NONE == 0
ACKED_CONFIGURE == 1
SURFACE_ATTACHED == 2

\* 0xfeffffff, the last identifier a client may allocate.
MaxClientID == <<65279, 65535>>

\* sizeof(recv_buffer) in EventLoop.
RECV_BUFFER_SIZE == 4096

\* A null payload pointer; any other payload pointer is an offset into the
\* receive buffer.
NULL == -1

\* The interface names the client looks for, as C strings without their
\* terminator, and one it does not look for.
WL_SHM == <<119, 108, 95, 115, 104, 109>>
XDG_WM_BASE == <<120, 100, 103, 95, 119, 109, 95, 98, 97, 115, 101>>
WL_COMPOSITOR == <<119, 108, 95, 99, 111, 109, 112, 111, 115, 105, 116, 111, 114>>
WL_SEAT == <<119, 108, 95, 115, 101, 97, 116>>

(***************************************************************************)
(* Buffers.  A buffer of `capacity` bytes is kept as the prefix `bytes`    *)
(* written so far (C offset i is element i + 1); every byte past the       *)
(* prefix holds `fill`: the zero a memset left there, or what an           *)
(* uninitialised array happens to hold.  A write past the capacity shows   *)
(* as a prefix longer than the capacity.                                   *)
(***************************************************************************)
Buffer(capacity, fill) ==
  [bytes |-> <<>>, fill |-> fill, capacity |-> capacity]

ByteAt(buffer, i) ==
  IF i < Len(buffer.bytes) THEN buffer.bytes[i + 1] ELSE buffer.fill

\* memcpy(buffer + offset, bytes, Len(bytes))
PutBytes(buffer, offset, bytes) ==
  [buffer EXCEPT !.bytes =
     [i \in 1..Max(Len(buffer.bytes), offset + Len(bytes)) |->
        IF i > offset /\ i <= offset + Len(bytes) THEN bytes[i - offset]
        ELSE IF i <= Len(buffer.bytes) THEN buffer.bytes[i]
        ELSE buffer.fill]]

\* The first n bytes of a buffer.
Prefix(buffer, n) == [i \in 1..n |-> ByteAt(buffer, i - 1)]

\* An uninitialised array of `capacity` bytes, all holding `junk`.
StackBuffer(capacity, junk) == Buffer(capacity, junk)

\* A rounding that clears the two low bits: v & ~3.
RoundUp4Down(v) == <<v[1], v[2] - (v[2] % 4)>>

RECURSIVE RoundUp4(_)
RoundUp4(v) == IF v[2] % 4 # 0 THEN RoundUp4(Add32(v, 1)) ELSE v

\* RoundUp4 of a small byte count, as a byte count.
RoundUp4Int(n) == ToInt(RoundUp4(U32(n)))

AppendUint32(buffer, current_offset, v) ==
  [buffer |-> PutBytes(buffer, current_offset, Bytes32(v)),
   offset |-> current_offset + 4]

\* An encoder whose length field leaves out the terminator.
AppendWaylandStringNoTerminator(buffer, current_offset, buffer_capacity, str) ==
  LET length == Len(str)
      padded_length == RoundUp4Int(length + 1)
      padding_length == padded_length - length
      remaining == buffer_capacity - current_offset
      a == AppendUint32(buffer, current_offset, U32(length))
      b == PutBytes(a.buffer, a.offset, str)
      c == PutBytes(b, a.offset + length, [i \in 1..padding_length |-> 0])
  IN  IF padded_length + 4 > remaining
      THEN [ok |-> FALSE, buffer |-> buffer, offset |-> current_offset]
      ELSE [ok |-> TRUE, buffer |-> c,
            offset |-> a.offset + length + padding_length]

\* An encoder that writes the empty string as a zero length field alone.
AppendWaylandStringBare(buffer, current_offset, buffer_capacity, str) ==
  LET length == Len(str)
      padded_length == IF length = 0 THEN 0 ELSE RoundUp4Int(length + 1)
      padding_length == padded_length - length
      remaining == buffer_capacity - current_offset
      a == AppendUint32(buffer, current_offset,
                        U32(IF length = 0 THEN 0 ELSE length + 1))
      b == PutBytes(a.buffer, a.offset, str)
      c == PutBytes(b, a.offset + length, [i \in 1..padding_length |-> 0])
  IN  IF padded_length + 4 > remaining
      THEN [ok |-> FALSE, buffer |-> buffer, offset |-> current_offset]
      ELSE [ok |-> TRUE, buffer |-> c,
            offset |-> a.offset + length + padding_length]

\* An encoder that ends the string at its terminator, without the padding
\* to a multiple of 4.
AppendWaylandStringUnpadded(buffer, current_offset, buffer_capacity, str) ==
  LET length == Len(str)
      padded_length == RoundUp4Int(length + 1)
      remaining == buffer_capacity - current_offset
      a == AppendUint32(buffer, current_offset, U32(length + 1))
      b == PutBytes(a.buffer, a.offset, str)
      c == PutBytes(b, a.offset + length, <<0>>)
  IN  IF padded_length + 4 > remaining
      THEN [ok |-> FALSE, buffer |-> buffer, offset |-> current_offset]
      ELSE [ok |-> TRUE, buffer |-> c, offset |-> a.offset + length + 1]

AppendWaylandString(buffer, current_offset, buffer_capacity, str) ==
  LET length == Len(str)
      padded_length == RoundUp4Int(length + 1)
      padding_length == padded_length - length
      remaining == buffer_capacity - current_offset
      a == AppendUint32(buffer, current_offset, U32(length + 1))
      b == PutBytes(a.buffer, a.offset, str)
      c == PutBytes(b, a.offset + length, [i \in 1..padding_length |-> 0])
  IN  IF padded_length + 4 > remaining
      THEN [ok |-> FALSE, buffer |-> buffer, offset |-> current_offset]
      ELSE [ok |-> TRUE, buffer |-> c,
            offset |-> a.offset + length + padding_length]

ReadUint32(buffer, current_offset) ==
  [value |-> <<ByteAt(buffer, current_offset + 2)
                 + 256 * ByteAt(buffer, current_offset + 3),
               ByteAt(buffer, current_offset)
                 + 256 * ByteAt(buffer, current_offset + 1)>>,
   offset |-> current_offset + 4]

\* A reader that takes a header declaring less than 8 bytes for the header
\* of a message without payload.
ReadWaylandEventLenient(buffer, current_offset) ==
  LET object_id == ReadUint32(buffer, current_offset)
      opcode_and_size == ReadUint32(buffer, object_id.offset)
      size_with_header == opcode_and_size.value[1]
      payload_size == IF size_with_header < 8 THEN 0 ELSE size_with_header - 8
  IN  [exit |-> FALSE,
       event |-> [object_id |-> object_id.value,
                  opcode |-> opcode_and_size.value[2],
                  payload_size |-> payload_size,
                  payload |-> IF payload_size = 0 THEN NULL
                              ELSE opcode_and_size.offset],
       offset |-> opcode_and_size.offset + RoundUp4Int(payload_size)]

\* exit tells that the size check failed and the process called exit(1).
ReadWaylandEvent(buffer, current_offset) ==
  LET object_id == ReadUint32(buffer, current_offset)
      opcode_and_size == ReadUint32(buffer, object_id.offset)
      size_with_header == opcode_and_size.value[1]
      payload_size == size_with_header - 8
  IN  IF size_with_header < 8
      THEN [exit |-> TRUE,
            event |-> [object_id |-> object_id.value,
                       opcode |-> opcode_and_size.value[2],
                       payload_size |-> 0, payload |-> NULL],
            offset |-> opcode_and_size.offset]
      ELSE [exit |-> FALSE,
            event |-> [object_id |-> object_id.value,
                       opcode |-> opcode_and_size.value[2],
                       payload_size |-> payload_size,
                       payload |-> IF payload_size = 0 THEN NULL
                                   ELSE opcode_and_size.offset],
            offset |-> opcode_and_size.offset + RoundUp4Int(payload_size)]

\* An encoder whose size field leaves out the 8 bytes of the header.
WriteWaylandMessageBodySize(buffer, current_offset, src) ==
  LET a == AppendUint32(buffer, current_offset, src.object_id)
      opcode_and_size == <<src.payload_size % W16, src.opcode>>
      b == AppendUint32(a.buffer, a.offset, opcode_and_size)
  IN  IF src.payload_size > 0
      THEN [buffer |-> PutBytes(b.buffer, b.offset,
                                SubSeq(src.payload, 1, src.payload_size)),
            offset |-> b.offset + RoundUp4Int(src.payload_size)]
      ELSE b

\* src is [object_id, opcode, payload_size, payload], payload a byte sequence.
WriteWaylandMessage(buffer, current_offset, src) ==
  LET a == AppendUint32(buffer, current_offset, src.object_id)
      opcode_and_size == <<(src.payload_size + 8) % W16, src.opcode>>
      b == AppendUint32(a.buffer, a.offset, opcode_and_size)
  IN  IF src.payload_size > 0
      THEN [buffer |-> PutBytes(b.buffer, b.offset,
                                SubSeq(src.payload, 1, src.payload_size)),
            offset |-> b.offset + RoundUp4Int(src.payload_size)]
      ELSE b

\* The C string at an offset: the bytes up to the first zero byte.
CString(buffer, offset) ==
  LET zeros == {i \in offset..Max(Len(buffer.bytes), offset) :
                  ByteAt(buffer, i) = 0}
      end == CHOOSE i \in zeros : \A j \in zeros : i <= j
  IN  [k \in 1..(end - offset) |-> ByteAt(buffer, offset + k - 1)]

\* string is NULL for the literal "", else the offset of its first byte.
\* far tells that the length read puts the next offset past any 32-bit sum
\* the model keeps exact; the offset is then only known to be out of bounds.
ReadWaylandString(buffer, current_offset) ==
  LET string_length == ReadUint32(buffer, current_offset)
      rounded == RoundUp4(string_length.value)
  IN  IF IsZero32(string_length.value)
      THEN [string |-> NULL, offset |-> string_length.offset, far |-> FALSE]
      ELSE IF rounded[1] > 0
      THEN [string |-> string_length.offset,
            offset |-> string_length.offset + RECV_BUFFER_SIZE, far |-> TRUE]
      ELSE [string |-> string_length.offset,
            offset |-> string_length.offset + rounded[2], far |-> FALSE]

\* An allocator that wraps to 2 where the source's one calls exit(1).
NextWaylandIDWrapping(n) ==
  LET next_id == Add32(n, 1)
  IN  [next_id |-> IF Gt32(next_id, MaxClientID) THEN U32(2) ELSE next_id,
       exit |-> FALSE]

\* An allocator whose test is  next_id > 0xff000000.
NextWaylandIDLateCheck(n) ==
  LET next_id == Add32(n, 1)
  IN  [next_id |-> next_id, exit |-> Gt32(next_id, Add32(MaxClientID, 1))]

\* Calling the allocator with the counter at n: the counter afterwards, and
\* whether the call ended the process instead of returning the counter.
NextWaylandID(n) ==
  LET next_id == Add32(n, 1)
  IN  [next_id |-> next_id, exit |-> Gt32(next_id, MaxClientID)]

(***************************************************************************)
(* The state of the program.                                               *)
(***************************************************************************)
VARIABLES
  pc,             \* where main() is
  s,              \* the ApplicationState of main()
  should_exit,    \* the flag the signal handler sets
  next_id,        \* the static counter of NextWaylandID
  recv_buffer,    \* EventLoop's receive buffer
  bytes_read,     \* what the last recv returned
  buffer_offset,  \* ProcessWaylandEvents' offset into the batch
  result,         \* what EventLoop returned (-1 while it has not)
  exit_code,      \* the exit status of the process (-1 while it runs)
  wire_out,       \* the messages the last step handed to send or sendmsg
  count,          \* history: per kind, the messages handed to send so far
  sys,            \* history: the sockets opened and the resources released
  handled,        \* history: number of events passed to HandleWaylandEvent
  received,       \* history: number of messages the compositor has sent
  returned,       \* history: the identifiers NextWaylandID has returned
  codec           \* a call of the wire codec: its arguments and its results

vars == <<pc, s, should_exit, next_id, recv_buffer, bytes_read, buffer_offset,
          result, exit_code, wire_out, count, sys, handled, received, returned,
          codec>>

(***************************************************************************)
(* Bounds of the model and the inputs of the environment.                  *)
(***************************************************************************)
\* Messages the compositor sends over a run, and in one batch.
MaxMsgs == 5
MaxBatchLen == 2

\* What an uninitialised byte of a stack buffer may hold.
StackJunk == {0, 255}

\* What send and sendmsg may return: the whole length, fewer bytes, or -1.
SendResults == {"full", "short", "error"}

\* What GetWaylandConnection may return: -1, or the descriptor of the
\* connected socket (0 when the process was started with stdin closed).
ConnectFds == {-1, 0, 3}

\* The descriptor shm_open returns when it succeeds.
ShmFd == 4

\* The serials the compositor puts in ping and configure events.
Serials == {7, 42}

\* memset(&state, 0, sizeof(state))
ZeroState ==
  [socket_fd |-> 0, shm_fd |-> 0, registry_id |-> Zero32, shm_id |-> Zero32,
   shm_pool_id |-> Zero32, frame_buffer_id |-> Zero32,
   compositor_id |-> Zero32, xdg_wm_base_id |-> Zero32,
   surface_id |-> Zero32, xdg_surface_id |-> Zero32,
   xdg_toplevel_id |-> Zero32, binding_done |-> 0, surface_state |-> NONE,
   width |-> 0, height |-> 0, color_channels |-> 0, stride |-> 0,
   image_buffer_size |-> 0, image_buffer |-> "NULL"]

(***************************************************************************)
(* The functions that send requests.  Each is the set of its possible      *)
(* outcomes, one per result of the system calls it makes:                  *)
(*   ret      what the function returns                                    *)
(*   s        the ApplicationState afterwards                              *)
(*   next_id  the allocator's counter afterwards                           *)
(*   ids      the identifiers the allocator returned, in order             *)
(*   out      the messages handed to send or sendmsg, in order             *)
(*   stop     "no", or "exit" when exit(1) was called, or "crash" when a   *)
(*            null or out-of-bounds pointer was read                       *)
(***************************************************************************)
Outcome(ret, st, n, ids, out, stop) ==
  [ret |-> ret, s |-> st, next_id |-> n, ids |-> ids, out |-> out,
   stop |-> stop]

Unit(st, n) == {Outcome(1, st, n, <<>>, <<>>, "no")}

\* F after every outcome of outs that returned non-zero.
Then(outs, F(_, _)) ==
  UNION {IF o.stop # "no" \/ o.ret = 0 THEN {o}
         ELSE {[p EXCEPT !.ids = o.ids \o p.ids, !.out = o.out \o p.out] :
                 p \in F(o.s, o.next_id)} :
         o \in outs}

Message(object_id, opcode, payload) ==
  [object_id |-> object_id, opcode |-> opcode, payload_size |-> Len(payload),
   payload |-> payload]

\* The bytes WriteWaylandMessage leaves in a stack buffer, up to the offset.
Serialized(capacity, msg) ==
  {LET w == WriteWaylandMessage(StackBuffer(capacity, junk), 0, msg)
   IN  Prefix(w.buffer, w.offset) : junk \in StackJunk}

\* A call of send(socket_fd, buffer, buffer_offset, flags).
Send(kind, buffers) ==
  {[kind |-> kind, bytes |-> b, fd |-> FALSE, result |-> r] :
     b \in buffers, r \in SendResults}

SendOk(entry) == entry.result = "full"

\* A call of sendmsg with the shared-memory descriptor as SCM_RIGHTS data;
\* it reports failure only when sendmsg returns a negative value.
SendMsgWithShmDescriptor(kind, buffers) ==
  {[ok |-> r # "error",
    entry |-> [kind |-> kind, bytes |-> b, fd |-> TRUE, result |-> r]] :
     b \in buffers, r \in SendResults}

\* A function that allocates one identifier, sends one message built from it
\* and, when the send succeeded, stores the identifier with Store.
Stopped(st, a) == {Outcome(0, st, a.next_id, <<>>, <<>>, "exit")}

GetWaylandDisplayRegistry(st, n) ==
  LET a == NextWaylandID(n)
      msg == Message(U32(WAYLAND_DISPLAY_OBJECT_ID),
                     WAYLAND_DISPLAY_GET_REGISTRY_OPCODE, Bytes32(a.next_id))
  IN  IF a.exit THEN Stopped(st, a)
      ELSE {Outcome(IF SendOk(e) THEN 1 ELSE 0,
                    IF SendOk(e) THEN [st EXCEPT !.registry_id = a.next_id]
                    ELSE st,
                    a.next_id, <<a.next_id>>, <<e>>, "no") :
              e \in Send("get_registry", Serialized(128, msg))}

\* ret is the new identifier, or Zero32.
WaylandRegistryBind(st, n, name, interface, version) ==
  LET a == NextWaylandID(n)
  IN  IF a.exit THEN Stopped(st, a)
      ELSE UNION {
        LET p1 == AppendUint32(StackBuffer(248, junk), 0, name)
            p2 == AppendWaylandString(p1.buffer, p1.offset, 248, interface)
            p3 == AppendUint32(p2.buffer, p2.offset, version)
            p4 == AppendUint32(p3.buffer, p3.offset, a.next_id)
            msg == [object_id |-> st.registry_id,
                    opcode |-> WAYLAND_REGISTRY_BIND_OPCODE,
                    payload_size |-> p4.offset % W16,
                    payload |-> Prefix(p4.buffer, p4.offset)]
        IN  IF ~p2.ok
            THEN {Outcome(Zero32, st, a.next_id, <<a.next_id>>, <<>>, "no")}
            ELSE {Outcome(IF SendOk(e) THEN a.next_id ELSE Zero32, st,
                          a.next_id, <<a.next_id>>, <<e>>, "no") :
                    e \in Send("bind", Serialized(256, msg))} :
        junk \in StackJunk}

CreateWLSurface(st, n) ==
  LET a == NextWaylandID(n)
      st1 == [st EXCEPT !.surface_id = a.next_id]
      msg == Message(st1.compositor_id, 0, Bytes32(st1.surface_id))
  IN  IF a.exit THEN Stopped(st, a)
      ELSE {Outcome(IF SendOk(e) THEN 1 ELSE 0, st1, a.next_id,
                    <<a.next_id>>, <<e>>, "no") :
              e \in Send("create_surface", Serialized(64, msg))}

CreateXDGSurface(st, n) ==
  LET a == NextWaylandID(n)
      st1 == [st EXCEPT !.xdg_surface_id = a.next_id]
      args == Bytes32(st1.xdg_surface_id) \o Bytes32(st1.surface_id)
      msg == Message(st1.xdg_wm_base_id, 2, args)
  IN  IF a.exit THEN Stopped(st, a)
      ELSE {Outcome(IF SendOk(e) THEN 1 ELSE 0, st1, a.next_id,
                    <<a.next_id>>, <<e>>, "no") :
              e \in Send("get_xdg_surface", Serialized(64, msg))}

\* A request that names the xdg_surface where the new top-level goes.
GetXDGTopLevelRepeatedId(st, n) ==
  LET a == NextWaylandID(n)
      st1 == [st EXCEPT !.xdg_toplevel_id = a.next_id]
      msg == Message(st1.xdg_surface_id, 1, Bytes32(st1.xdg_surface_id))
  IN  IF a.exit THEN Stopped(st, a)
      ELSE {Outcome(IF SendOk(e) THEN 1 ELSE 0, st1, a.next_id,
                    <<a.next_id>>, <<e>>, "no") :
              e \in Send("get_toplevel", Serialized(64, msg))}

GetXDGTopLevel(st, n) ==
  LET a == NextWaylandID(n)
      st1 == [st EXCEPT !.xdg_toplevel_id = a.next_id]
      msg == Message(st1.xdg_surface_id, 1, Bytes32(st1.xdg_toplevel_id))
  IN  IF a.exit THEN Stopped(st, a)
      ELSE {Outcome(IF SendOk(e) THEN 1 ELSE 0, st1, a.next_id,
                    <<a.next_id>>, <<e>>, "no") :
              e \in Send("get_toplevel", Serialized(64, msg))}

\* A creation that asks for the top-level before the xdg_surface exists.
CreateSurfaceToplevelFirst(st, n) ==
  Then(Then(CreateWLSurface(st, n), GetXDGTopLevel), CreateXDGSurface)

CreateSurface(st, n) ==
  Then(Then(CreateWLSurface(st, n), CreateXDGSurface), GetXDGTopLevel)

CreateShmPool(st, n) ==
  LET a == NextWaylandID(n)
      args == Bytes32(a.next_id) \o Bytes32(U32(st.image_buffer_size))
      msg == Message(st.shm_id, 0, args)
  IN  IF a.exit THEN Stopped(st, a)
      ELSE {Outcome(IF r.ok THEN 1 ELSE 0,
                    IF r.ok THEN [st EXCEPT !.shm_pool_id = a.next_id]
                    ELSE st,
                    a.next_id, <<a.next_id>>, <<r.entry>>, "no") :
              r \in SendMsgWithShmDescriptor("create_pool",
                                             Serialized(256, msg))}

CreateFrameBuffer(st, n) ==
  LET a == NextWaylandID(n)
      args == Bytes32(a.next_id) \o Bytes32(Zero32)
                \o Bytes32(U32(st.width)) \o Bytes32(U32(st.height))
                \o Bytes32(U32(st.stride)) \o Bytes32(Zero32)
      msg == Message(st.shm_pool_id, 0, args)
  IN  IF a.exit THEN Stopped(st, a)
      ELSE {Outcome(IF SendOk(e) THEN 1 ELSE 0,
                    IF SendOk(e) THEN [st EXCEPT !.frame_buffer_id = a.next_id]
                    ELSE st,
                    a.next_id, <<a.next_id>>, <<e>>, "no") :
              e \in Send("create_buffer", Serialized(256, msg))}

AttachBuffer(st, n) ==
  LET args == Bytes32(st.frame_buffer_id) \o Bytes32(Zero32)
                \o Bytes32(Zero32)
      msg == Message(st.surface_id, 1, args)
  IN  {Outcome(IF SendOk(e) THEN 1 ELSE 0, st, n, <<>>, <<e>>, "no") :
         e \in Send("attach", Serialized(128, msg))}

CommitSurface(st, n) ==
  LET msg == [object_id |-> st.surface_id, opcode |-> 6, payload_size |-> 0,
              payload |-> <<>>]
  IN  {Outcome(IF SendOk(e) THEN 1 ELSE 0, st, n, <<>>, <<e>>, "no") :
         e \in Send("commit", Serialized(64, msg))}

\* A renderer that creates the pool for every frame.
RenderPoolAlways(st, n) == CreateShmPool(st, n)

RenderPool(st, n) ==
  IF IsZero32(st.shm_pool_id) THEN CreateShmPool(st, n) ELSE Unit(st, n)

\* A renderer that creates a frame buffer for every frame.
RenderBufferAlways(st, n) == CreateFrameBuffer(st, n)

RenderBuffer(st, n) ==
  IF IsZero32(st.frame_buffer_id) THEN CreateFrameBuffer(st, n)
  ELSE Unit(st, n)

\* A renderer that leaves the surface state at NONE.
RenderAttachedReset(st, n) ==
  {Outcome(1, [st EXCEPT !.surface_state = NONE], n, <<>>, <<>>, "no")}

RenderAttached(st, n) ==
  {Outcome(1, [st EXCEPT !.surface_state = SURFACE_ATTACHED], n, <<>>, <<>>,
           "no")}

RenderFrame(st, n) ==
  Then(Then(Then(Then(RenderPool(st, n), RenderBuffer), AttachBuffer),
            CommitSurface), RenderAttached)

\* A pong addressed to the xdg_surface.
SendXDGPongToSurface(st, n, ping_serial) ==
  LET msg == Message(st.xdg_surface_id, 3, Bytes32(ping_serial))
  IN  {Outcome(IF SendOk(e) THEN 1 ELSE 0, st, n, <<>>, <<e>>, "no") :
         e \in Send("pong", Serialized(128, msg))}

SendXDGPong(st, n, ping_serial) ==
  LET msg == Message(st.xdg_wm_base_id, 3, Bytes32(ping_serial))
  IN  {Outcome(IF SendOk(e) THEN 1 ELSE 0, st, n, <<>>, <<e>>, "no") :
         e \in Send("pong", Serialized(128, msg))}

\* An acknowledgement addressed to the xdg_toplevel.
AckXDGSurfaceConfigureToToplevel(st, n, serial) ==
  LET msg == Message(st.xdg_toplevel_id, 4, Bytes32(serial))
  IN  {Outcome(IF SendOk(e) THEN 1 ELSE 0, st, n, <<>>, <<e>>, "no") :
         e \in Send("ack_configure", Serialized(64, msg))}

AckXDGSurfaceConfigure(st, n, serial) ==
  LET msg == Message(st.xdg_surface_id, 4, Bytes32(serial))
  IN  {Outcome(IF SendOk(e) THEN 1 ELSE 0, st, n, <<>>, <<e>>, "no") :
         e \in Send("ack_configure", Serialized(64, msg))}

\* A BindingDone that writes its cache and never reads it.
BindingDoneRecomputed(st) ==
  IF ~IsZero32(st.shm_id) /\ ~IsZero32(st.compositor_id)
     /\ ~IsZero32(st.xdg_wm_base_id)
  THEN [ret |-> 1, s |-> [st EXCEPT !.binding_done = 1]]
  ELSE [ret |-> 0, s |-> st]

\* A BindingDone that is content with any one of the three roles.
BindingDoneAny(st) ==
  IF st.binding_done # 0 THEN [ret |-> 1, s |-> st]
  ELSE IF ~IsZero32(st.shm_id) \/ ~IsZero32(st.compositor_id)
          \/ ~IsZero32(st.xdg_wm_base_id)
  THEN [ret |-> 1, s |-> [st EXCEPT !.binding_done = 1]]
  ELSE [ret |-> 0, s |-> st]

\* [ret, s]: the answer, and the state with the answer cached.
BindingDone(st) ==
  IF st.binding_done # 0 THEN [ret |-> 1, s |-> st]
  ELSE IF ~IsZero32(st.shm_id) /\ ~IsZero32(st.compositor_id)
          /\ ~IsZero32(st.xdg_wm_base_id)
  THEN [ret |-> 1, s |-> [st EXCEPT !.binding_done = 1]]
  ELSE [ret |-> 0, s |-> st]

\* [s, calls]: the state afterwards and the release calls made, in order.
CleanupState(st) ==
  [s |-> [ZeroState EXCEPT !.socket_fd = -1, !.shm_fd = -1],
   calls |-> (IF st.socket_fd >= 0 THEN <<"close(socket_fd)">> ELSE <<>>)
             \o (IF st.shm_fd >= 0
                 THEN <<"munmap(" \o st.image_buffer \o ")", "close(shm_fd)">>
                 ELSE <<>>)]

\* The outcomes of OpenSharedMemoryObject, one per call that may fail:
\* [ret, s, calls], calls being the resources acquired, in order.
OpenSharedMemoryObject(st) ==
  {[ret |-> 0, s |-> [st EXCEPT !.shm_fd = -1], calls |-> <<>>]}
  \cup {[ret |-> 0, s |-> [st EXCEPT !.shm_fd = ShmFd],
         calls |-> <<"shm_open(shm_fd)">>] :
          failed \in {"shm_unlink", "ftruncate"}}
  \cup {[ret |-> 0,
         s |-> [st EXCEPT !.shm_fd = ShmFd, !.image_buffer = "MAP_FAILED"],
         calls |-> <<"shm_open(shm_fd)">>]}
  \cup {[ret |-> 1,
         s |-> [st EXCEPT !.shm_fd = ShmFd, !.image_buffer = "mapped"],
         calls |-> <<"shm_open(shm_fd)", "mmap(image_buffer)">>]}

(***************************************************************************)
(* HandleWaylandEvent.  e is a ParsedWaylandEvent whose payload points     *)
(* into buffer.                                                            *)
(***************************************************************************)
\* What a read past the end of the receive buffer may yield, when it does
\* not fault.
OutOfBoundsValues == {Zero32, <<65535, 65535>>}

Crash(st, n) == {Outcome(0, st, n, <<>>, <<>>, "crash")}

\* A handler that reports success where the source's one returns 0.
FailedSkipped(st, n) == {Outcome(1, st, n, <<>>, <<>>, "no")}

Failed(st, n) == {Outcome(0, st, n, <<>>, <<>>, "no")}

\* A handler that records every bound global as the wl_shm.
BindRoleShm(st, n, role, name, interface, version) ==
  {IF o.stop # "no" THEN o
   ELSE [o EXCEPT !.ret = IF IsZero32(o.ret) THEN 0 ELSE 1,
                  !.s = [o.s EXCEPT !["shm_id"] = o.ret]] :
     o \in WaylandRegistryBind(st, n, name, interface, version)}

\* s->role = WaylandRegistryBind(...); if (!s->role) return 0;
BindRole(st, n, role, name, interface, version) ==
  {IF o.stop # "no" THEN o
   ELSE [o EXCEPT !.ret = IF IsZero32(o.ret) THEN 0 ELSE 1,
                  !.s = [o.s EXCEPT ![role] = o.ret]] :
     o \in WaylandRegistryBind(st, n, name, interface, version)}

\* A handler that binds whatever interface is announced, as the wl_shm.
HandleGlobalAnyInterface(st, n, buffer, e) ==
  IF e.payload = NULL THEN Crash(st, n)
  ELSE
    LET name == ReadUint32(buffer, e.payload)
        str == ReadWaylandString(buffer, name.offset)
        interface_name == IF str.string = NULL THEN <<>>
                          ELSE CString(buffer, str.string)
    IN  BindRole(st, n, "shm_id", name.value, interface_name,
                 ReadUint32(buffer, str.offset).value)

HandleGlobal(st, n, buffer, e) ==
  IF e.payload = NULL THEN Crash(st, n)
  ELSE
    LET name == ReadUint32(buffer, e.payload)
        str == ReadWaylandString(buffer, name.offset)
        interface_name == IF str.string = NULL THEN <<>>
                          ELSE CString(buffer, str.string)
        outside == str.far \/ str.offset + 4 > RECV_BUFFER_SIZE
        versions == IF outside THEN OutOfBoundsValues
                    ELSE {ReadUint32(buffer, str.offset).value}
        Binds(version) ==
          Then(Then(IF interface_name = WL_SHM
                    THEN BindRole(st, n, "shm_id", name.value,
                                  interface_name, version)
                    ELSE Unit(st, n),
                    LAMBDA st1, n1 :
                      IF interface_name = XDG_WM_BASE
                      THEN BindRole(st1, n1, "xdg_wm_base_id", name.value,
                                    interface_name, version)
                      ELSE Unit(st1, n1)),
               LAMBDA st2, n2 :
                 IF interface_name = WL_COMPOSITOR
                 THEN BindRole(st2, n2, "compositor_id", name.value,
                               interface_name, version)
                 ELSE Unit(st2, n2))
    IN  (IF outside THEN Crash(st, n) ELSE {})
        \cup UNION {Binds(version) : version \in versions}

\* A handler that takes the xdg_toplevel.configure for one to acknowledge.
HandleToplevelConfigureAcked(st, n, e) ==
  Then(AckXDGSurfaceConfigure(st, n, Zero32),
       LAMBDA st1, n1 :
         {Outcome(1, [st1 EXCEPT !.surface_state = ACKED_CONFIGURE], n1,
                  <<>>, <<>>, "no")})

\* xdg_toplevel.configure: the width and the height are read from the
\* payload, whatever its size, and printed.
HandleToplevelConfigure(st, n, e) ==
  IF e.payload = NULL THEN Crash(st, n) ELSE Unit(st, n)

HandleWaylandEvent(st, n, buffer, e) ==
  IF e.object_id = st.registry_id /\ e.opcode = WAYLAND_REGISTRY_GLOBAL_EVENT
  THEN HandleGlobal(st, n, buffer, e)
  ELSE IF e.object_id = U32(WAYLAND_DISPLAY_OBJECT_ID)
          /\ e.opcode = WAYLAND_DISPLAY_ERROR_EVENT
  THEN Failed(st, n)
  ELSE IF e.object_id = st.xdg_wm_base_id /\ e.opcode = XDG_WM_PING_EVENT
  THEN IF e.payload_size # 4 THEN Failed(st, n)
       ELSE SendXDGPong(st, n, ReadUint32(buffer, e.payload).value)
  ELSE IF e.object_id = st.xdg_surface_id
          /\ e.opcode = XDG_SURFACE_CONFIGURE_EVENT
  THEN IF e.payload_size # 4 THEN Failed(st, n)
       ELSE Then(AckXDGSurfaceConfigure(st, n,
                                        ReadUint32(buffer, e.payload).value),
                 LAMBDA st1, n1 :
                   {Outcome(1, [st1 EXCEPT !.surface_state = ACKED_CONFIGURE],
                            n1, <<>>, <<>>, "no")})
  ELSE IF e.object_id = st.xdg_toplevel_id
          /\ e.opcode = XDG_TOPLEVEL_CONFIGURE_EVENT
  THEN HandleToplevelConfigure(st, n, e)
  ELSE IF e.object_id = st.shm_id /\ e.opcode = WAYLAND_SHM_FORMAT_EVENT
  THEN IF e.payload_size # 4 THEN Failed(st, n) ELSE Unit(st, n)
  ELSE Failed(st, n)

(***************************************************************************)
(* The compositor.  It may send any bytes; the model lets it send the      *)
(* events below, addressed to the identifiers the client holds (an         *)
(* identifier the client has not assigned yet is 0).                       *)
(***************************************************************************)
Wire(object_id, opcode, payload) ==
  WriteWaylandMessage(Buffer(RECV_BUFFER_SIZE, 0), 0,
                      Message(object_id, opcode, payload)).buffer.bytes

GlobalPayload(name, label, version) ==
  LET a == AppendUint32(Buffer(RECV_BUFFER_SIZE, 0), 0, U32(name))
      b == AppendWaylandString(a.buffer, a.offset, RECV_BUFFER_SIZE, label)
  IN  AppendUint32(b.buffer, b.offset, U32(version)).buffer.bytes

\* The numeric name and the version under which each interface is announced.
Globals ==
  {[name |-> 1, label |-> WL_SHM, version |-> 1],
   [name |-> 2, label |-> WL_COMPOSITOR, version |-> 4],
   [name |-> 3, label |-> XDG_WM_BASE, version |-> 2],
   [name |-> 4, label |-> WL_SEAT, version |-> 7]}

\* An identifier no object of the client has.
UnknownId == <<65280, 1>>

\* An interface name of 236 characters: with its length field and its
\* terminator it fills a payload buffer of 248 bytes behind the numeric name.
LongInterface == [i \in 1..236 |-> 97]

ServerMessages(st) ==
  {Wire(st.registry_id, WAYLAND_REGISTRY_GLOBAL_EVENT,
        GlobalPayload(g.name, g.label, g.version)) : g \in Globals}
  \cup {Wire(st.xdg_wm_base_id, XDG_WM_PING_EVENT, Bytes32(U32(n))) :
          n \in Serials}
  \cup {Wire(st.xdg_surface_id, XDG_SURFACE_CONFIGURE_EVENT,
             Bytes32(U32(n))) : n \in Serials}
  \cup {\* xdg_toplevel.configure: width, height, an empty array of states
        Wire(st.xdg_toplevel_id, XDG_TOPLEVEL_CONFIGURE_EVENT,
             Bytes32(U32(640)) \o Bytes32(U32(480)) \o Bytes32(Zero32)),
        \* wl_shm.format
        Wire(st.shm_id, WAYLAND_SHM_FORMAT_EVENT, Bytes32(U32(1))),
        \* wl_display.error: object, code, message "x"
        Wire(U32(WAYLAND_DISPLAY_OBJECT_ID), WAYLAND_DISPLAY_ERROR_EVENT,
             Bytes32(U32(3)) \o Bytes32(Zero32)
               \o AppendWaylandString(Buffer(RECV_BUFFER_SIZE, 0), 0,
                                      RECV_BUFFER_SIZE, <<120>>).buffer.bytes),
        \* wl_registry.global_remove, which the client does not handle
        Wire(st.registry_id, 1, Bytes32(U32(4))),
        \* an event for an object the client does not have
        Wire(UnknownId, 0, <<>>),
        \* a ping and a configure with the wrong payload size
        Wire(st.xdg_wm_base_id, XDG_WM_PING_EVENT, <<>>),
        Wire(st.xdg_surface_id, XDG_SURFACE_CONFIGURE_EVENT,
             Bytes32(U32(7)) \o Bytes32(U32(8))),
        \* a global announcement without payload
        Wire(st.registry_id, WAYLAND_REGISTRY_GLOBAL_EVENT, <<>>),
        \* the announcement of an interface with a long name
        Wire(st.registry_id, WAYLAND_REGISTRY_GLOBAL_EVENT,
             GlobalPayload(5, LongInterface, 1)),
        \* a header that declares a total size of 4
        Bytes32(st.registry_id) \o Bytes32(<<4, 0>>)}

\* The events the compositor may send behind another one in the same batch.
Followers(st) ==
  {Wire(st.registry_id, WAYLAND_REGISTRY_GLOBAL_EVENT,
        GlobalPayload(g.name, g.label, g.version)) :
     g \in {h \in Globals : h.label # WL_SEAT}}
  \cup {Wire(st.xdg_wm_base_id, XDG_WM_PING_EVENT, Bytes32(U32(42))),
        Wire(st.xdg_surface_id, XDG_SURFACE_CONFIGURE_EVENT, Bytes32(U32(7))),
        Bytes32(st.registry_id) \o Bytes32(<<4, 0>>)}

\* What follows the first message of a batch: up to k messages.
RECURSIVE Tails(_, _)
Tails(st, k) ==
  {[bytes |-> <<>>, count |-> 0]}
  \cup (IF k <= 0 THEN {}
        ELSE {[bytes |-> m \o b.bytes, count |-> b.count + 1] :
                m \in Followers(st), b \in Tails(st, k - 1)})

\* The batches of 1..k messages: [bytes, count].
Batches(st, k) ==
  IF k <= 0 THEN {}
  ELSE {[bytes |-> m \o b.bytes, count |-> b.count + 1] :
          m \in ServerMessages(st), b \in Tails(st, k - 1)}

\* A batch that ends inside its only message: recv returned before the
\* last byte, or the last two bytes, of a ping had arrived.
Truncated(st, k) ==
  IF k <= 0 THEN {}
  ELSE {LET m == Wire(st.xdg_wm_base_id, XDG_WM_PING_EVENT, Bytes32(U32(42)))
        IN  [bytes |-> SubSeq(m, 1, Len(m) - missing), count |-> 1] :
          missing \in {1, 2}}

(***************************************************************************)
(* main() and EventLoop as a state machine.  pc is                         *)
(*   "main"          before GetWaylandConnection                           *)
(*   "open_shm"      before OpenSharedMemoryObject                         *)
(*   "get_registry"  before GetWaylandDisplayRegistry                      *)
(*   "sigaction"     before the handler of SIGINT is installed             *)
(*   "loop"          entering EventLoop                                    *)
(*   "recv"          in the call of recv                                   *)
(*   "batch"         in ProcessWaylandEvents, a message left to read       *)
(*   "post"          after ProcessWaylandEvents returned 1                 *)
(*   "exited"        after the process ended                               *)
(***************************************************************************)
\* The exit status of a process killed by SIGSEGV, as a shell reports it.
SegvStatus == 128 + 11

\* The kinds of request the client sends.
Kinds ==
  {"get_registry", "bind", "create_surface", "get_xdg_surface",
   "get_toplevel", "create_pool", "create_buffer", "attach", "commit",
   "pong", "ack_configure"}

\* No call of the codec is being looked at.
NoCall ==
  [kind |-> "none", stage |-> "done", object_id |-> Zero32, opcode |-> 0,
   payload |-> <<>>, str |-> <<>>, n |-> Zero32, capacity |-> 0, start |-> 0,
   buffer |-> Buffer(0, 0), offset |-> 0, ok |-> TRUE, out |-> <<>>]

Init ==
  /\ pc = "main"
  /\ s = [ZeroState EXCEPT !.socket_fd = -1, !.shm_fd = -1]
  /\ should_exit = 0
  /\ next_id = U32(1)
  /\ recv_buffer = Buffer(RECV_BUFFER_SIZE, 0)
  /\ bytes_read = 0
  /\ buffer_offset = 0
  /\ result = -1
  /\ exit_code = -1
  /\ wire_out = <<>>
  /\ count = [k \in Kinds |-> 0]
  /\ sys = <<>>
  /\ handled = 0
  /\ received = 0
  /\ returned = <<>>
  /\ codec = NoCall

\* The step hands the messages of o, in order, to send or sendmsg.
SendAll(o) ==
  /\ wire_out' = o
  /\ count' = [k \in Kinds |->
                 count[k] + Cardinality({i \in 1..Len(o) : o[i].kind = k})]

SendNothing == SendAll(<<>>)

\* The step applies an outcome of a function that allocates and sends.
Apply(o) ==
  /\ next_id' = o.next_id
  /\ returned' = returned \o o.ids
  /\ SendAll(o.out)

ApplyNothing ==
  /\ UNCHANGED <<next_id, returned>>
  /\ SendNothing

\* How a step leaves main(): it goes on at pc next,
Continue(st, next) ==
  /\ s' = st
  /\ pc' = next
  /\ UNCHANGED <<result, exit_code, sys>>

\* or a set-up step failed: CleanupState(&state); return 1;
SetupFailed(st, calls) ==
  /\ s' = CleanupState(st).s
  /\ sys' = sys \o calls \o CleanupState(st).calls
  /\ exit_code' = 1
  /\ pc' = "exited"
  /\ UNCHANGED result

\* or EventLoop returned ret: main() prints which, calls CleanupState and
\* returns 0,
LoopReturns(st, ret) ==
  /\ result' = ret
  /\ s' = CleanupState(st).s
  /\ sys' = sys \o CleanupState(st).calls
  /\ exit_code' = 0
  /\ pc' = "exited"

\* or the process ended where it was, by exit(code) or by a signal.
Die(st, code) ==
  /\ s' = st
  /\ exit_code' = code
  /\ pc' = "exited"
  /\ UNCHANGED <<result, sys>>

\* The test of the while loop of EventLoop.
LoopTest(st, flag) ==
  IF flag # 0 THEN LoopReturns(st, 1) ELSE Continue(st, "recv")

MainConnect ==
  /\ pc = "main"
  /\ \E fd \in ConnectFds :
       IF fd < 0 THEN Die([s EXCEPT !.socket_fd = fd], 1)
       ELSE /\ sys' = Append(sys, "connect(socket_fd)")
            /\ UNCHANGED result
            /\ IF fd = 0
               THEN /\ s' = [s EXCEPT !.socket_fd = fd]
                    /\ exit_code' = 1
                    /\ pc' = "exited"
               ELSE /\ s' = [s EXCEPT
                               !.socket_fd = fd,
                               !.width = IMAGE_WIDTH,
                               !.height = IMAGE_HEIGHT,
                               !.stride = IMAGE_WIDTH * COLOR_CHANNELS,
                               !.image_buffer_size =
                                 IMAGE_WIDTH * COLOR_CHANNELS * IMAGE_HEIGHT]
                    /\ pc' = "open_shm"
                    /\ UNCHANGED exit_code
  /\ ApplyNothing
  /\ UNCHANGED <<should_exit, recv_buffer, bytes_read, buffer_offset, handled,
                 received>>
  /\ UNCHANGED codec

MainOpenShm ==
  /\ pc = "open_shm"
  /\ \E o \in OpenSharedMemoryObject(s) :
       IF o.ret = 0 THEN SetupFailed(o.s, o.calls)
       ELSE /\ s' = o.s
            /\ sys' = sys \o o.calls
            /\ pc' = "get_registry"
            /\ UNCHANGED <<result, exit_code>>
  /\ ApplyNothing
  /\ UNCHANGED <<should_exit, recv_buffer, bytes_read, buffer_offset, handled,
                 received>>
  /\ UNCHANGED codec

MainGetRegistry ==
  /\ pc = "get_registry"
  /\ \E o \in GetWaylandDisplayRegistry(s, next_id) :
       /\ Apply(o)
       /\ IF o.stop # "no" THEN Die(o.s, 1)
          ELSE IF o.ret = 0 THEN SetupFailed(o.s, <<>>)
          ELSE Continue(o.s, "sigaction")
  /\ UNCHANGED <<should_exit, recv_buffer, bytes_read, buffer_offset, handled,
                 received>>
  /\ UNCHANGED codec

MainSigaction ==
  /\ pc = "sigaction"
  /\ \E installed \in BOOLEAN :
       IF installed THEN Continue(s, "loop") ELSE SetupFailed(s, <<>>)
  /\ ApplyNothing
  /\ UNCHANGED <<should_exit, recv_buffer, bytes_read, buffer_offset, handled,
                 received>>
  /\ UNCHANGED codec

EnterLoop ==
  /\ pc = "loop"
  /\ LoopTest(s, should_exit)
  /\ ApplyNothing
  /\ UNCHANGED <<should_exit, recv_buffer, bytes_read, buffer_offset, handled,
                 received>>
  /\ UNCHANGED codec

\* SIGINT, once the handler is installed.  The handler only sets the flag,
\* which the loop reads at its test.  A signal that arrives while recv
\* blocks also makes recv return -1 (the handler is installed without
\* SA_RESTART); one that arrives at "recv" without that effect came between
\* the test and the call.
SignalHandler ==
  /\ should_exit = 0
  /\ should_exit' = 1
  /\ \/ /\ pc \in {"loop", "recv", "batch", "post"}
        /\ UNCHANGED <<pc, s, result, exit_code, sys>>
     \/ /\ pc = "recv"
        /\ LoopReturns(s, 0)
  /\ ApplyNothing
  /\ UNCHANGED <<recv_buffer, bytes_read, buffer_offset, handled, received>>
  /\ UNCHANGED codec

\* The call of recv.  The model keeps the bytes of the batch being handled;
\* the bytes of the buffer past them read as the zeros of the memset.
Recv ==
  /\ pc = "recv"
  /\ \/ \* recv returns -1
        /\ LoopReturns(s, 0)
        /\ UNCHANGED <<recv_buffer, bytes_read, buffer_offset, received>>
     \/ \* recv returns 0: the compositor closed the connection
        /\ recv_buffer' = Buffer(RECV_BUFFER_SIZE, 0)
        /\ bytes_read' = 0
        /\ buffer_offset' = 0
        /\ Continue(s, "post")
        /\ UNCHANGED received
     \/ \E b \in Batches(s, Min(MaxBatchLen, MaxMsgs - received))
                    \cup Truncated(s, MaxMsgs - received) :
          /\ recv_buffer' = PutBytes(Buffer(RECV_BUFFER_SIZE, 0), 0, b.bytes)
          /\ bytes_read' = Len(b.bytes)
          /\ buffer_offset' = 0
          /\ received' = received + b.count
          /\ Continue(s, "batch")
  /\ ApplyNothing
  /\ UNCHANGED <<should_exit, handled>>
  /\ UNCHANGED codec

\* ProcessWaylandEvents returned 1: its batch and its offset are dead.
BatchDone(st) ==
  /\ recv_buffer' = Buffer(RECV_BUFFER_SIZE, 0)
  /\ bytes_read' = 0
  /\ buffer_offset' = 0
  /\ Continue(st, "post")

\* One turn of the loop of ProcessWaylandEvents.
ProcessWaylandEvent ==
  /\ pc = "batch"
  /\ LET r == ReadWaylandEvent(recv_buffer, buffer_offset)
     IN  IF r.exit
         THEN /\ Die(s, 1)
              /\ ApplyNothing
              /\ UNCHANGED <<recv_buffer, bytes_read, buffer_offset, handled>>
         ELSE IF r.offset - 1 > bytes_read
         THEN /\ LoopReturns(s, 0)
              /\ ApplyNothing
              /\ buffer_offset' = r.offset
              /\ UNCHANGED <<recv_buffer, bytes_read, handled>>
         ELSE \E o \in HandleWaylandEvent(s, next_id, recv_buffer, r.event) :
                /\ Apply(o)
                /\ handled' = handled + 1
                /\ IF o.stop # "no" \/ o.ret = 0 \/ r.offset < bytes_read
                   THEN /\ buffer_offset' = r.offset
                        /\ UNCHANGED <<recv_buffer, bytes_read>>
                        /\ IF o.stop = "exit" THEN Die(o.s, 1)
                           ELSE IF o.stop = "crash" THEN Die(o.s, SegvStatus)
                           ELSE IF o.ret = 0 THEN LoopReturns(o.s, 0)
                           ELSE Continue(o.s, "batch")
                   ELSE BatchDone(o.s)
  /\ UNCHANGED <<should_exit, received>>
  /\ UNCHANGED codec

\* An EventLoop that renders after every batch once a configure event was
\* acknowledged.
AfterBatchRerender(st, n) ==
  LET b == BindingDone(st)
  IN  Then(IF b.ret # 0 /\ IsZero32(b.s.surface_id)
           THEN Then(CreateSurface(b.s, n), CommitSurface)
           ELSE Unit(b.s, n),
           LAMBDA st1, n1 :
             IF st1.surface_state >= ACKED_CONFIGURE THEN RenderFrame(st1, n1)
             ELSE Unit(st1, n1))

\* An EventLoop that creates a surface as long as none was configured.
AfterBatchUntilConfigured(st, n) ==
  LET b == BindingDone(st)
  IN  Then(IF b.ret # 0 /\ b.s.surface_state = NONE
           THEN Then(CreateSurface(b.s, n), CommitSurface)
           ELSE Unit(b.s, n),
           LAMBDA st1, n1 :
             IF st1.surface_state = ACKED_CONFIGURE THEN RenderFrame(st1, n1)
             ELSE Unit(st1, n1))

\* An EventLoop that creates the surface without the commit that follows.
AfterBatchNoCommit(st, n) ==
  LET b == BindingDone(st)
  IN  Then(IF b.ret # 0 /\ IsZero32(b.s.surface_id)
           THEN CreateSurface(b.s, n)
           ELSE Unit(b.s, n),
           LAMBDA st1, n1 :
             IF st1.surface_state = ACKED_CONFIGURE THEN RenderFrame(st1, n1)
             ELSE Unit(st1, n1))

\* An EventLoop that renders whenever no buffer is attached yet.
AfterBatchEager(st, n) ==
  LET b == BindingDone(st)
  IN  Then(IF b.ret # 0 /\ IsZero32(b.s.surface_id)
           THEN Then(CreateSurface(b.s, n), CommitSurface)
           ELSE Unit(b.s, n),
           LAMBDA st1, n1 :
             IF st1.surface_state # SURFACE_ATTACHED THEN RenderFrame(st1, n1)
             ELSE Unit(st1, n1))

\* What EventLoop does after a batch: surface creation, then rendering.
AfterBatch(st, n) ==
  LET b == BindingDone(st)
  IN  Then(IF b.ret # 0 /\ IsZero32(b.s.surface_id)
           THEN Then(CreateSurface(b.s, n), CommitSurface)
           ELSE Unit(b.s, n),
           LAMBDA st1, n1 :
             IF st1.surface_state = ACKED_CONFIGURE THEN RenderFrame(st1, n1)
             ELSE Unit(st1, n1))

PostBatch ==
  /\ pc = "post"
  /\ \E o \in AfterBatch(s, next_id) :
       /\ Apply(o)
       /\ IF o.stop # "no" THEN Die(o.s, 1)
          ELSE IF o.ret = 0 THEN LoopReturns(o.s, 0)
          ELSE LoopTest(o.s, should_exit)
  /\ UNCHANGED <<should_exit, recv_buffer, bytes_read, buffer_offset, handled,
                 received>>
  /\ UNCHANGED codec

Next ==
  \/ MainConnect
  \/ MainOpenShm
  \/ MainGetRegistry
  \/ MainSigaction
  \/ EnterLoop
  \/ SignalHandler
  \/ Recv
  \/ ProcessWaylandEvent
  \/ PostBatch

Spec == Init /\ [][Next]_vars

(***************************************************************************)
(* C1.  No attach request is sent before the first ack_configure request,  *)
(* and the only commit request sent before it is the one that follows the  *)
(* creation of the surface.                                                *)
(***************************************************************************)
C1_NoAttachBeforeAck ==
  count["ack_configure"] = 0 =>
    /\ count["attach"] = 0
    /\ count["commit"] <= 1
    /\ count["commit"] = 1 => count["get_toplevel"] = 1

\* The surface was created and committed; no configure was acknowledged yet.
C1_Witness ==
  /\ pc = "recv"
  /\ count["commit"] = 1
  /\ count["ack_configure"] = 0

\* C1 as the specification words it: neither an attach nor a commit request
\* is sent before the first ack_configure request.
C1_Original ==
  count["ack_configure"] = 0 => count["attach"] = 0 /\ count["commit"] = 0

(***************************************************************************)
(* C2.  While the loop runs the surface state never returns to NONE and    *)
(* changes only in three ways: NONE to ACKED_CONFIGURE and                 *)
(* SURFACE_ATTACHED to ACKED_CONFIGURE when a configure event has been     *)
(* acknowledged, ACKED_CONFIGURE to SURFACE_ATTACHED when a frame has been *)
(* rendered after a batch.                                                 *)
(***************************************************************************)
C2_SurfaceStateSteps ==
  [][pc' # "exited" =>
       LET Acked == /\ pc = "batch"
                    /\ Len(wire_out') = 1
                    /\ wire_out'[1].kind = "ack_configure"
                    /\ wire_out'[1].result = "full"
       IN  \/ s'.surface_state = s.surface_state
           \/ /\ s.surface_state = NONE
              /\ s'.surface_state = ACKED_CONFIGURE
              /\ Acked
           \/ /\ s.surface_state = ACKED_CONFIGURE
              /\ s'.surface_state = SURFACE_ATTACHED
              /\ pc = "post"
           \/ /\ s.surface_state = SURFACE_ATTACHED
              /\ s'.surface_state = ACKED_CONFIGURE
              /\ Acked]_vars

\* A frame was rendered and a later configure event set the state back.
C2_Witness ==
  /\ pc \in {"batch", "post"}
  /\ s.surface_state = ACKED_CONFIGURE
  /\ count["attach"] >= 1
  /\ count["ack_configure"] >= 2

\* C2 as the specification words it: the state only moves forward, and
\* SURFACE_ATTACHED is final.
C2_Original ==
  [][pc' # "exited" => s'.surface_state >= s.surface_state]_vars

(***************************************************************************)
(* C3, as the specification words it: a process whose event loop returned  *)
(* 0 exits with status 1, and status 0 is that of a process whose event    *)
(* loop returned 1.                                                        *)
(***************************************************************************)
C3_Original ==
  pc = "exited" =>
    /\ result = 0 => exit_code = 1
    /\ exit_code = 0 => result = 1

(***************************************************************************)
(* C4, as the specification words it: a process that opened the connection *)
(* and has ended has closed the connection exactly once.                   *)
(***************************************************************************)
C4_Original ==
  (pc = "exited" /\ \E i \in 1..Len(sys) : sys[i] = "connect(socket_fd)") =>
    Cardinality({i \in 1..Len(sys) : sys[i] = "close(socket_fd)"}) = 1

(***************************************************************************)
(* C5.  When the next header of the batch declares a total size below 8,   *)
(* the process ends there with status 1: no event is passed to             *)
(* HandleWaylandEvent, nothing is sent, and the offset into the batch does *)
(* not move.  (A signal may arrive first; it only sets the flag.)          *)
(***************************************************************************)
C5_ShortHeaderRejected ==
  [][(pc = "batch"
       /\ ReadUint32(recv_buffer, buffer_offset + 4).value[1] < 8) =>
       /\ handled' = handled
       /\ wire_out' = <<>>
       /\ count' = count
       /\ buffer_offset' = buffer_offset
       /\ \/ pc' = "exited" /\ exit_code' = 1
          \/ pc' = "batch" /\ should_exit' # should_exit]_vars

\* The second header of a batch declared less than 8 bytes and the process
\* has ended.
C5_Witness ==
  /\ pc = "exited"
  /\ exit_code = 1
  /\ handled >= 1
  /\ buffer_offset > 0
  /\ buffer_offset < bytes_read
  /\ ReadUint32(recv_buffer, buffer_offset + 4).value[1] < 8

(***************************************************************************)
(* C6.  When the next event of the batch is a ping (opcode 0, a payload of *)
(* 4 bytes) for the bound xdg_wm_base, handling it hands exactly one       *)
(* message to send: a pong (opcode 3) for the same object with the same 4  *)
(* bytes.  The handler changes nothing of the application state and        *)
(* allocates nothing; when the send fails the loop ends.                   *)
(***************************************************************************)
C6_PingPong ==
  [][LET object_id == ReadUint32(recv_buffer, buffer_offset).value
         header == ReadUint32(recv_buffer, buffer_offset + 4).value
         serial == [i \in 1..4 |-> ByteAt(recv_buffer, buffer_offset + 7 + i)]
     IN  (/\ pc = "batch"
          /\ ~IsZero32(s.xdg_wm_base_id)
          /\ object_id = s.xdg_wm_base_id
          /\ header = <<12, XDG_WM_PING_EVENT>>
          /\ buffer_offset + 12 <= bytes_read
          /\ should_exit' = should_exit) =>
           /\ Len(wire_out') = 1
           /\ wire_out'[1].kind = "pong"
           /\ ~wire_out'[1].fd
           /\ wire_out'[1].bytes
                = Bytes32(object_id) \o Bytes32(<<12, 3>>) \o serial
           /\ count' = [count EXCEPT !["pong"] = @ + 1]
           /\ next_id' = next_id
           /\ handled' = handled + 1
           /\ IF wire_out'[1].result = "full"
              THEN s' = s /\ pc' # "exited"
              ELSE pc' = "exited" /\ result' = 0
           /\ \A o \in HandleWaylandEvent(
                          s, next_id, recv_buffer,
                          ReadWaylandEvent(recv_buffer, buffer_offset).event) :
                o.s = s]_vars

\* A ping was answered while a buffer was attached to the surface.
C6_Witness ==
  /\ pc \in {"batch", "post"}
  /\ s.surface_state = SURFACE_ATTACHED
  /\ Len(wire_out) = 1
  /\ wire_out[1].kind = "pong"
  /\ wire_out[1].result = "full"

(***************************************************************************)
(* C7.  Once BindingDone has answered 1 (it has set binding_done), it      *)
(* answers 1 for every later state of the run, and for the state every     *)
(* handler leaves, a failed bind of a repeated announcement included.      *)
(***************************************************************************)
C7_BindingMonotone ==
  [][s.binding_done # 0 =>
       /\ pc' # "exited" => BindingDone(s').ret = 1
       /\ pc = "batch" =>
            \A o \in HandleWaylandEvent(
                       s, next_id, recv_buffer,
                       ReadWaylandEvent(recv_buffer, buffer_offset).event) :
              BindingDone(o.s).ret = 1]_vars

\* After BindingDone answered 1 a further announcement was bound, and the
\* batch goes on.
C7_Witness ==
  /\ pc = "batch"
  /\ s.binding_done = 1
  /\ buffer_offset > 0
  /\ Len(wire_out) = 1
  /\ wire_out[1].kind = "bind"
  /\ wire_out[1].result = "full"

(***************************************************************************)
(* C8.  binding_done is set only after a whole batch, in a state where     *)
(* shm_id, compositor_id and xdg_wm_base_id are all non-zero, and a        *)
(* wl_compositor.create_surface request is sent only there: never while    *)
(* the events of a batch are handled.                                      *)
(***************************************************************************)
C8_BindingAfterBatch ==
  [][LET Bound == /\ ~IsZero32(s.shm_id)
                  /\ ~IsZero32(s.compositor_id)
                  /\ ~IsZero32(s.xdg_wm_base_id)
     IN  /\ (s.binding_done = 0 /\ s'.binding_done # 0) =>
              pc = "post" /\ Bound
         /\ count'["create_surface"] # count["create_surface"] =>
              pc = "post" /\ Bound]_vars

\* The three roles were bound by the first event of a batch whose second
\* event is still to be handled: binding_done is not set, no surface made.
C8_Witness ==
  /\ pc = "batch"
  /\ buffer_offset > 0
  /\ ~IsZero32(s.shm_id)
  /\ ~IsZero32(s.compositor_id)
  /\ ~IsZero32(s.xdg_wm_base_id)
  /\ s.binding_done = 0
  /\ count["create_surface"] = 0

(***************************************************************************)
(* C15, as the specification words it: a send that took fewer bytes than   *)
(* requested is the last thing the run did: the process has ended and its  *)
(* event loop did not return 1.                                            *)
(***************************************************************************)
C15_Original ==
  \A i \in 1..Len(wire_out) :
    wire_out[i].result = "short" =>
      i = Len(wire_out) /\ pc = "exited" /\ result # 1

(***************************************************************************)
(* C16.  Over a run at most one wl_shm.create_pool request is sent, and a  *)
(* message carries the descriptor exactly when it is that request.         *)
(***************************************************************************)
C16_DescriptorOnce ==
  /\ count["create_pool"] <= 1
  /\ \A i \in 1..Len(wire_out) :
       wire_out[i].fd <=> wire_out[i].kind = "create_pool"

\* A second frame was rendered, after a further configure event.
C16_Witness ==
  /\ pc # "exited"
  /\ count["attach"] >= 2
  /\ count["create_pool"] = 1
  /\ s.surface_state = SURFACE_ATTACHED

(***************************************************************************)
(* C17.  When the next event of the batch is complete and its object id    *)
(* and opcode match no handler, handling it ends the event loop with       *)
(* result 0: nothing is sent, nothing is allocated, and neither the rest   *)
(* of the batch nor the steps after a batch are reached.                   *)
(***************************************************************************)
C17_UnsupportedEventFatal ==
  [][LET object_id == ReadUint32(recv_buffer, buffer_offset).value
         header == ReadUint32(recv_buffer, buffer_offset + 4).value
     IN  (/\ pc = "batch"
          /\ header[1] >= 8
          /\ buffer_offset + 4 * ((header[1] + 3) \div 4) - 1 <= bytes_read
          /\ \/ header[2] # 0
             \/ object_id \notin {s.registry_id, U32(WAYLAND_DISPLAY_OBJECT_ID),
                                  s.xdg_wm_base_id, s.xdg_surface_id,
                                  s.xdg_toplevel_id, s.shm_id}
          /\ should_exit' = should_exit) =>
           /\ pc' = "exited"
           /\ result' = 0
           /\ handled' = handled + 1
           /\ wire_out' = <<>>
           /\ count' = count
           /\ next_id' = next_id]_vars

\* The first event of a batch was a wl_registry.global_remove; the loop
\* ended with the rest of the batch unread.
C17_Witness ==
  /\ pc = "exited"
  /\ result = 0
  /\ ReadUint32(recv_buffer, 0).value = <<0, 2>>
  /\ ReadUint32(recv_buffer, 4).value = <<12, 1>>
  /\ buffer_offset = 12
  /\ bytes_read > 12

(***************************************************************************)
(* C18, as the specification words it: when the step in which the signal   *)
(* sets the flag ends the process, the event loop has returned 1 and the   *)
(* exit status is 0.                                                       *)
(***************************************************************************)
C18_Original ==
  [][(should_exit = 0 /\ should_exit' = 1 /\ pc' = "exited") =>
       result' = 1 /\ exit_code' = 0]_vars

(***************************************************************************)
(* C19, as the specification words it: every release is that of a resource *)
(* acquired before it, and no resource is released twice; in particular    *)
(* munmap is called only on a buffer that mmap returned.                   *)
(***************************************************************************)
C19_Original ==
  LET Released(release, acquire) ==
        \A i \in 1..Len(sys) :
          sys[i] = release =>
            /\ \E j \in 1..(i - 1) : sys[j] = acquire
            /\ \A j \in 1..Len(sys) : sys[j] = release => j = i
  IN  /\ Released("close(socket_fd)", "connect(socket_fd)")
      /\ Released("close(shm_fd)", "shm_open(shm_fd)")
      /\ Released("munmap(mapped)", "mmap(image_buffer)")
      /\ \A i \in 1..Len(sys) :
           sys[i] \notin {"munmap(NULL)", "munmap(MAP_FAILED)"}

(***************************************************************************)
(* The allocator on its own.  A run of main() makes a handful of calls; to *)
(* reach the ceiling the counter starts anywhere a long enough run leaves  *)
(* it: at 1, before the first call, or at an identifier already returned.  *)
(* The history starts with that identifier.                                *)
(***************************************************************************)
\* Calls of the allocator in one run, and how far below the ceiling the
\* counter may start.
MaxAllocs == 4
NearCeiling == 40

\* 0xfeffffff - k, for k up to the low half of 0xfeffffff.
BelowCeiling(k) == <<MaxClientID[1], MaxClientID[2] - k>>

AllocStarts ==
  {U32(1), U32(2), U32(W16 - 2)} \cup {BelowCeiling(k) : k \in 0..NearCeiling}

InitAlloc ==
  /\ pc = "alloc"
  /\ s = [ZeroState EXCEPT !.socket_fd = -1, !.shm_fd = -1]
  /\ should_exit = 0
  /\ next_id \in AllocStarts
  /\ recv_buffer = Buffer(RECV_BUFFER_SIZE, 0)
  /\ bytes_read = 0
  /\ buffer_offset = 0
  /\ result = -1
  /\ exit_code = -1
  /\ wire_out = <<>>
  /\ count = [k \in Kinds |-> 0]
  /\ sys = <<>>
  /\ handled = 0
  /\ received = 0
  /\ returned = IF next_id = U32(1) THEN <<>> ELSE <<next_id>>
  /\ codec = NoCall

\* One call of NextWaylandID.
Allocate ==
  /\ pc = "alloc"
  /\ Len(returned) <= MaxAllocs
  /\ LET a == NextWaylandID(next_id)
     IN  /\ next_id' = a.next_id
         /\ IF a.exit
            THEN /\ exit_code' = 1
                 /\ pc' = "exited"
                 /\ UNCHANGED returned
            ELSE /\ returned' = Append(returned, a.next_id)
                 /\ UNCHANGED <<pc, exit_code>>
  /\ UNCHANGED <<s, should_exit, recv_buffer, bytes_read, buffer_offset,
                 result, wire_out, count, sys, handled, received>>
  /\ UNCHANGED codec

NextAlloc == Allocate

SpecAlloc == InitAlloc /\ [][NextAlloc]_vars

C10_NeverAboveCeiling ==
  \A i \in 1..Len(returned) : ~Gt32(returned[i], MaxClientID)

\* A call has returned 0xfeffffff.
C10_Witness ==
  /\ Len(returned) >= 2
  /\ returned[Len(returned)] = MaxClientID
  /\ pc = "alloc"

\* C10 as the specification words it: no value returned is greater than or
\* equal to 0xfeffffff.
C10_Original ==
  \A i \in 1..Len(returned) : Lt32(returned[i], MaxClientID)

(***************************************************************************)
(* The wire codec on its own.  A call is drawn with its arguments; the     *)
(* steps apply the encoder, then the decoder, to the buffer.  The buffer   *)
(* holds arbitrary prior content (its fill byte).                          *)
(***************************************************************************)
\* The longest payload and string of the exhaustive part, the largest
\* small argument of RoundUp4, and how far below 2^32 its arguments go.
MaxPayloadLen == 5
MaxStrLen == 5
MaxRound == 9
NearWrap == 7

CodecIds == {U32(1), MaxClientID, <<W16 - 1, W16 - 1>>}

CodecOpcodes == {0, 3, W16 - 1}

\* A payload or a string of n bytes, none of them zero.
Pattern(n, first) == [i \in 1..n |-> 1 + ((first + 7 * i) % 255)]

\* The payload lengths around the sign bit of (payload_size + 8) << 16 and
\* the longest one whose total size fits the 16 bits of the header.
LongPayloadLens == {2^15 - 9, 2^15 - 8, W16 - 9}

CodecCall(kind, fields) ==
  [f \in DOMAIN NoCall |->
     IF f = "kind" THEN kind
     ELSE IF f = "stage" THEN "input"
     ELSE IF f \in DOMAIN fields THEN fields[f]
     ELSE NoCall[f]]

MessageCalls ==
  {CodecCall("message",
             [object_id |-> id, opcode |-> op, payload |-> Pattern(len, first),
              start |-> start, offset |-> start, capacity |-> 64,
              buffer |-> Buffer(64, junk)]) :
     id \in CodecIds, op \in CodecOpcodes, len \in 0..MaxPayloadLen,
     first \in {0, 100}, start \in {0, 4}, junk \in StackJunk}
  \cup
  {CodecCall("message",
             [object_id |-> MaxClientID, opcode |-> 3,
              payload |-> Pattern(len, 0), start |-> 0, offset |-> 0,
              capacity |-> W16, buffer |-> Buffer(W16, junk)]) :
     len \in LongPayloadLens, junk \in StackJunk}

StringCalls ==
  {CodecCall("string",
             [str |-> Pattern(len, first), start |-> start, offset |-> start,
              capacity |-> capacity, buffer |-> Buffer(capacity, junk)]) :
     len \in 0..MaxStrLen, first \in {0, 100}, start \in {0, 4},
     capacity \in {8, 64}, junk \in StackJunk}

RoundCalls ==
  {CodecCall("round", [n |-> v]) :
     v \in {U32(k) : k \in 0..MaxRound}
           \cup {<<0, W16 - 1 - k>> : k \in 0..3}
           \cup {<<W16 - 1, W16 - 1 - k>> : k \in 0..NearWrap}}

InitCodec ==
  /\ pc = "codec"
  /\ s = [ZeroState EXCEPT !.socket_fd = -1, !.shm_fd = -1]
  /\ should_exit = 0
  /\ next_id = U32(1)
  /\ recv_buffer = Buffer(RECV_BUFFER_SIZE, 0)
  /\ bytes_read = 0
  /\ buffer_offset = 0
  /\ result = -1
  /\ exit_code = -1
  /\ wire_out = <<>>
  /\ count = [k \in Kinds |-> 0]
  /\ sys = <<>>
  /\ handled = 0
  /\ received = 0
  /\ returned = <<>>
  /\ codec \in MessageCalls \cup StringCalls \cup RoundCalls

CodecOnly ==
  UNCHANGED <<pc, s, should_exit, next_id, recv_buffer, bytes_read,
              buffer_offset, result, exit_code, wire_out, count, sys, handled,
              received, returned>>

\* WriteWaylandMessage(buffer, &offset, &msg)
EncodeMessage ==
  /\ codec.kind = "message"
  /\ codec.stage = "input"
  /\ LET w == WriteWaylandMessage(
                codec.buffer, codec.start,
                Message(codec.object_id, codec.opcode, codec.payload))
     IN  codec' = [codec EXCEPT !.stage = "encoded", !.buffer = w.buffer,
                                !.offset = w.offset]
  /\ CodecOnly

\* ReadWaylandEvent(buffer, &offset, &event) at the offset the encoder
\* started from.
DecodeMessage ==
  /\ codec.kind = "message"
  /\ codec.stage = "encoded"
  /\ codec' = [codec EXCEPT
                 !.stage = "decoded",
                 !.out = ReadWaylandEvent(codec.buffer, codec.start)]
  /\ CodecOnly

\* AppendWaylandString(buffer, &offset, capacity, str)
EncodeString ==
  /\ codec.kind = "string"
  /\ codec.stage = "input"
  /\ LET a == AppendWaylandString(codec.buffer, codec.start, codec.capacity,
                                  codec.str)
     IN  codec' = [codec EXCEPT !.stage = "encoded", !.ok = a.ok,
                                !.buffer = a.buffer, !.offset = a.offset]
  /\ CodecOnly

\* ReadWaylandString(buffer, &offset) at the offset the encoder started
\* from; the string returned is read up to its terminator.
DecodeString ==
  /\ codec.kind = "string"
  /\ codec.stage = "encoded"
  /\ codec.ok
  /\ LET r == ReadWaylandString(codec.buffer, codec.start)
     IN  codec' = [codec EXCEPT
                     !.stage = "decoded",
                     !.out = [string |-> IF r.string = NULL THEN <<>>
                                         ELSE CString(codec.buffer, r.string),
                              literal |-> r.string = NULL,
                              offset |-> r.offset, far |-> r.far]]
  /\ CodecOnly

\* RoundUp4(n), and RoundUp4 of the result.
Round ==
  /\ codec.kind = "round"
  /\ codec.stage = "input"
  /\ codec' = [codec EXCEPT
                 !.stage = "done",
                 !.out = <<RoundUp4(codec.n), RoundUp4(RoundUp4(codec.n))>>]
  /\ CodecOnly

NextCodec ==
  \/ EncodeMessage
  \/ DecodeMessage
  \/ EncodeString
  \/ DecodeString
  \/ Round

SpecCodec == InitCodec /\ [][NextCodec]_vars

(***************************************************************************)
(* C11.  Message round trip: ReadWaylandEvent, applied where               *)
(* WriteWaylandMessage started, yields the object id, the opcode, the      *)
(* payload length and the payload bytes that were written, and both        *)
(* offsets end at 8 + the payload length rounded up to 4.                  *)
(***************************************************************************)
C11_MessageRoundTrip ==
  (codec.kind = "message" /\ codec.stage = "decoded") =>
    LET length == Len(codec.payload)
        event == codec.out.event
    IN  /\ ~codec.out.exit
        /\ event.object_id = codec.object_id
        /\ event.opcode = codec.opcode
        /\ event.payload_size = length
        /\ IF length = 0 THEN event.payload = NULL
           ELSE /\ event.payload # NULL
                /\ [i \in 1..length |->
                      ByteAt(codec.buffer, event.payload + i - 1)]
                     = codec.payload
        /\ codec.out.offset = codec.offset
        /\ codec.offset = codec.start + 8 + 4 * ((length + 3) \div 4)

\* The longest payload (2^16 - 9 bytes) went through the encoder and the
\* decoder.
C11_Witness ==
  /\ codec.kind = "message"
  /\ codec.stage = "decoded"
  /\ Len(codec.payload) = W16 - 9

(***************************************************************************)
(* C12.  String round trip: AppendWaylandString accepts a string exactly   *)
(* when its length field, its bytes, its terminator and its padding fit    *)
(* the rest of the buffer; ReadWaylandString then yields the same string   *)
(* and its offset ends where the encoder's ended.                          *)
(***************************************************************************)
C12_StringRoundTrip ==
  (codec.kind = "string" /\ codec.stage # "input") =>
    LET length == Len(codec.str)
        size == 4 + 4 * ((length + 4) \div 4)
    IN  /\ codec.ok <=> size <= codec.capacity - codec.start
        /\ IF codec.ok THEN codec.offset = codec.start + size
           ELSE codec.offset = codec.start /\ codec.buffer.bytes = <<>>
        /\ codec.stage = "decoded" =>
             /\ codec.out.string = codec.str
             /\ ~codec.out.far
             /\ codec.out.offset = codec.offset

\* A string of three bytes, whose terminator is all its padding, was
\* written at offset 4 of a buffer of junk and read back.
C12_Witness ==
  /\ codec.kind = "string"
  /\ codec.stage = "decoded"
  /\ Len(codec.str) = 3
  /\ codec.start = 4
  /\ codec.buffer.fill = 255

(***************************************************************************)
(* C13.  Encoding the empty string writes 8 bytes: a length field of 1,    *)
(* the terminator and three zero bytes of padding.                         *)
(***************************************************************************)
C13_EmptyStringEncoding ==
  (codec.kind = "string" /\ codec.stage # "input" /\ codec.str = <<>>
     /\ codec.capacity - codec.start >= 8) =>
    /\ codec.ok
    /\ codec.offset = codec.start + 8
    /\ [i \in 1..8 |-> ByteAt(codec.buffer, codec.start + i - 1)]
         = <<1, 0, 0, 0, 0, 0, 0, 0>>

\* The empty string was written into a buffer of junk.
C13_Witness ==
  /\ codec.kind = "string"
  /\ codec.stage = "encoded"
  /\ codec.str = <<>>
  /\ codec.ok
  /\ codec.buffer.fill = 255

\* C13 as the specification words it: the empty string is written as 4
\* bytes, a length field of 0 and nothing else.
C13_Original ==
  (codec.kind = "string" /\ codec.stage # "input" /\ codec.str = <<>>
     /\ codec.capacity - codec.start >= 8) =>
    /\ codec.ok
    /\ codec.offset = codec.start + 4
    /\ ReadUint32(codec.buffer, codec.start).value = Zero32

(***************************************************************************)
(* C14.  For every n up to 0xfffffffc, RoundUp4(n) is a multiple of 4, is  *)
(* one of n, n + 1, n + 2, n + 3, and RoundUp4 of it is itself.  For the   *)
(* three values above, where no such 32-bit value exists, it is 0.         *)
(***************************************************************************)
C14_PaddingLaw ==
  (codec.kind = "round" /\ codec.stage = "done") =>
    LET r == codec.out[1]
    IN  /\ r[2] % 4 = 0
        /\ codec.out[2] = r
        /\ IF Gt32(codec.n, <<W16 - 1, W16 - 4>>) THEN r = Zero32
           ELSE /\ \E k \in 0..3 : Add32(codec.n, k) = r
                /\ ~Lt32(r, codec.n)

\* RoundUp4 was applied to 0xfffffffd, and to a value that carries into the
\* high half.
C14_Witness ==
  /\ codec.kind = "round"
  /\ codec.stage = "done"
  /\ codec.n \in {<<W16 - 1, W16 - 3>>, <<0, W16 - 1>>}

(***************************************************************************)
(* C14 as the specification words it: for every n, RoundUp4(n) is a        *)
(* multiple of 4, is one of n, n + 1, n + 2, n + 3 and not smaller than n, *)
(* and RoundUp4 of it is itself.                                           *)
(***************************************************************************)
C14_Original ==
  (codec.kind = "round" /\ codec.stage = "done") =>
    LET r == codec.out[1]
    IN  /\ r[2] % 4 = 0
        /\ \E k \in 0..3 : Add32(codec.n, k) = r
        /\ ~Lt32(r, codec.n)
        /\ codec.out[2] = r

(***************************************************************************)
(* C20, as the specification words it: after WriteWaylandMessage the bytes *)
(* between the end of the payload and the next 4-byte boundary are zero.   *)
(***************************************************************************)
C20_Original ==
  (codec.kind = "message" /\ codec.stage # "input") =>
    \A i \in (codec.start + 8 + Len(codec.payload))..(codec.offset - 1) :
      ByteAt(codec.buffer, i) = 0

(***************************************************************************)
(* The handshake against a compositor that cooperates: it announces the    *)
(* three globals the client needs, answers the first commit with an        *)
(* xdg_surface.configure, and sends only events the client has a handler   *)
(* for, whole, to objects the client has created.  No system call fails    *)
(* and no signal arrives.                                                  *)
(***************************************************************************)
\* The field of ApplicationState under which a global is recorded.
RoleOf(label) ==
  IF label = WL_SHM THEN "shm_id"
  ELSE IF label = WL_COMPOSITOR THEN "compositor_id"
  ELSE "xdg_wm_base_id"

\* The globals the client needs and has not bound.
Unbound(st) ==
  {h \in Globals : h.label # WL_SEAT /\ IsZero32(st[RoleOf(h.label)])}

\* The first commit was sent and no configure event was acknowledged.
ConfigureOwed(cnt) == cnt["commit"] >= 1 /\ cnt["ack_configure"] = 0

\* What the compositor may send.  owes marks what it has still to send for
\* the handshake to go on: the globals the client has not bound and, once
\* the first commit is there, the configure event.
Candidates(st, cnt) ==
  {[bytes |-> Wire(st.registry_id, WAYLAND_REGISTRY_GLOBAL_EVENT,
                   GlobalPayload(g.name, g.label, g.version)),
    owes |-> TRUE] : g \in Unbound(st)}
  \cup (IF cnt["commit"] >= 1
        THEN {[bytes |-> Wire(st.xdg_surface_id, XDG_SURFACE_CONFIGURE_EVENT,
                              Bytes32(U32(n))),
               owes |-> ConfigureOwed(cnt)] : n \in Serials}
        ELSE {})
  \* and what it may send besides
  \cup {[bytes |-> Wire(st.registry_id, WAYLAND_REGISTRY_GLOBAL_EVENT,
                        GlobalPayload(g.name, g.label, g.version)),
         owes |-> FALSE] : g \in {h \in Globals : h.label = WL_SEAT}}
  \cup (IF IsZero32(st.xdg_wm_base_id) THEN {}
        ELSE {[bytes |-> Wire(st.xdg_wm_base_id, XDG_WM_PING_EVENT,
                              Bytes32(U32(42))),
               owes |-> FALSE]})
  \cup (IF IsZero32(st.shm_id) THEN {}
        ELSE {[bytes |-> Wire(st.shm_id, WAYLAND_SHM_FORMAT_EVENT,
                              Bytes32(U32(1))),
               owes |-> FALSE]})
  \cup (IF IsZero32(st.xdg_toplevel_id) THEN {}
        ELSE {[bytes |-> Wire(st.xdg_toplevel_id,
                              XDG_TOPLEVEL_CONFIGURE_EVENT,
                              Bytes32(U32(640)) \o Bytes32(U32(480))
                                \o Bytes32(Zero32)),
               owes |-> FALSE]})

\* How many events the handshake still needs from the compositor.
Pending(st, cnt) ==
  Cardinality(Unbound(st)) + (IF cnt["ack_configure"] = 0 THEN 1 ELSE 0)

\* The sequences of up to k different elements of S.
RECURSIVE Arrangements(_, _)
Arrangements(S, k) ==
  {<<>>}
  \cup (IF k <= 0 THEN {}
        ELSE UNION {{<<m>> \o t : t \in Arrangements(S \ {m}, k - 1)} :
                      m \in S})

RECURSIVE Concat(_)
Concat(b) == IF b = <<>> THEN <<>> ELSE Head(b).bytes \o Concat(Tail(b))

\* The batches the compositor may send when room more events fit in the
\* run: what is left of room after the batch holds what the handshake
\* still needs.
LiveBatches(st, cnt, room) ==
  {b \in Arrangements(Candidates(st, cnt), Min(MaxBatchLen, room)) :
     /\ Len(b) >= 1
     /\ Len(b) + Pending(st, cnt)
          - Cardinality({i \in 1..Len(b) : b[i].owes}) <= room}

\* Every send of the step took the whole message.
Unfailing == \A i \in 1..Len(wire_out) : wire_out[i].result = "full"

LiveSetup ==
  /\ MainConnect \/ MainOpenShm \/ MainGetRegistry \/ MainSigaction
       \/ EnterLoop
  /\ pc' # "exited"
  /\ Unfailing'

LiveRecv ==
  /\ pc = "recv"
  /\ \E b \in LiveBatches(s, count, MaxMsgs - received) :
       /\ recv_buffer' = PutBytes(Buffer(RECV_BUFFER_SIZE, 0), 0, Concat(b))
       /\ bytes_read' = Len(Concat(b))
       /\ buffer_offset' = 0
       /\ received' = received + Len(b)
       /\ Continue(s, "batch")
  /\ ApplyNothing
  /\ UNCHANGED <<should_exit, handled>>
  /\ UNCHANGED codec

LiveProcess == ProcessWaylandEvent /\ Unfailing'

LivePost == PostBatch /\ Unfailing'

NextLive ==
  \/ LiveSetup
  \/ LiveRecv
  \/ LiveProcess
  \/ LivePost

\* The places of main() and of the loop.
Places ==
  {"main", "open_shm", "get_registry", "sigaction", "loop", "recv", "batch",
   "post", "exited"}

\* The process has a step to take: it has not ended and, where it waits in
\* recv, the compositor has something to send: an event it owes now, or
\* any other while the run has room for one more.
Runnable ==
  /\ pc # "exited"
  /\ pc = "recv" =>
       \/ Unbound(s) # {}
       \/ ConfigureOwed(count)
       \/ Pending(s, count) < MaxMsgs - received

\* A step of the running process: every step of NextLive moves main() to
\* another place or hands one more event to HandleWaylandEvent.
Scheduled ==
  /\ Runnable
  /\ pc' \in Places
  /\ handled' \in {handled, handled + 1}
  /\ <<pc', handled'>> # <<pc, handled>>

\* The process is scheduled as long as it has a step to take, and the
\* compositor sends what it owes.
SpecLive == Init /\ [][NextLive]_vars /\ WF_<<pc, handled>>(Scheduled)

(***************************************************************************)
(* C21.  Against the cooperating compositor the client eventually sends an *)
(* attach request followed by a commit request, in the step that sets the  *)
(* surface state to SURFACE_ATTACHED.                                      *)
(***************************************************************************)
C21_HandshakeCompletes ==
  <>(/\ s.surface_state = SURFACE_ATTACHED
     /\ Len(wire_out) >= 2
     /\ wire_out[Len(wire_out) - 1].kind = "attach"
     /\ wire_out[Len(wire_out)].kind = "commit")

\* The first frame: pool, buffer, attach and commit were sent in one step.
C21_Witness ==
  /\ pc = "recv"
  /\ s.surface_state = SURFACE_ATTACHED
  /\ Len(wire_out) = 4
  /\ wire_out[3].kind = "attach"
  /\ wire_out[4].kind = "commit"
  /\ count["attach"] = 1

(***************************************************************************)
(* C22.  Over a run the create_surface, get_xdg_surface and get_toplevel   *)
(* requests are each sent at most once, in that order.  While none was     *)
(* sent the client holds no surface; once one was sent and the run goes    *)
(* on, binding is complete (binding_done is set, the three roles are       *)
(* bound) and the surface id is set, so that no later batch creates again. *)
(***************************************************************************)
C22_SurfaceCreatedOnce ==
  /\ count["create_surface"] <= 1
  /\ count["get_xdg_surface"] <= count["create_surface"]
  /\ count["get_toplevel"] <= count["get_xdg_surface"]
  /\ pc # "exited" =>
       IF count["create_surface"] = 0
       THEN IsZero32(s.surface_id)
       ELSE /\ s.binding_done # 0
            /\ ~IsZero32(s.shm_id)
            /\ ~IsZero32(s.compositor_id)
            /\ ~IsZero32(s.xdg_wm_base_id)
            /\ ~IsZero32(s.surface_id)

\* After the surface was created two more batches were handled: one with
\* the configure event, and one after the frame was rendered.
C22_Witness ==
  /\ pc = "post"
  /\ count["create_surface"] = 1
  /\ count["get_toplevel"] = 1
  /\ s.surface_state = SURFACE_ATTACHED

(***************************************************************************)
(* C23.  The step that creates the surface hands to send, first and in     *)
(* this order: create_surface (opcode 0) to the compositor with a new id,  *)
(* get_xdg_surface (opcode 2) to the xdg_wm_base with a new id and the     *)
(* surface id, get_toplevel (opcode 1) to the new xdg_surface with a new   *)
(* id, commit (opcode 6) to the surface.  The three new ids are allocated  *)
(* one after the other.  A send that fails is the last of the step and ends the  *)
(* loop with result 0; these requests are sent in no other step.           *)
(***************************************************************************)
C23_CreationSequence ==
  LET kinds == <<"create_surface", "get_xdg_surface", "get_toplevel",
                 "commit">>
      Word(i, k) == [j \in 1..4 |-> wire_out[i].bytes[4 * k + j]]
      n == Min(Len(wire_out), 4)
  IN  /\ \A i \in 1..Len(wire_out) :
           wire_out[i].kind \in {"create_surface", "get_xdg_surface",
                                 "get_toplevel"} =>
             wire_out[1].kind = "create_surface" /\ i <= 3
      /\ (wire_out # <<>> /\ wire_out[1].kind = "create_surface") =>
           /\ \A i \in 1..n : wire_out[i].kind = kinds[i]
           /\ \A i \in 1..n : ~wire_out[i].fd
           /\ \A i \in 1..n :
                wire_out[i].result # "full" =>
                  i = Len(wire_out) /\ pc = "exited" /\ result = 0
           /\ n < 4 => wire_out[n].result # "full"
           /\ \E k \in 1..Len(returned) :
                \A i \in 1..Min(n, 3) :
                  /\ k + i - 1 <= Len(returned)
                  /\ Word(i, 2) = Bytes32(returned[k + i - 1])
           /\ Word(1, 1) = Bytes32(<<12, 0>>)
           /\ Len(wire_out[1].bytes) = 12
           /\ pc # "exited" =>
                /\ Word(1, 0) = Bytes32(s.compositor_id)
                /\ Word(1, 2) = Bytes32(s.surface_id)
           /\ n >= 2 =>
                /\ Len(wire_out[2].bytes) = 16
                /\ Word(2, 1) = Bytes32(<<16, 2>>)
                /\ Word(2, 3) = Word(1, 2)
                /\ pc # "exited" =>
                     /\ Word(2, 0) = Bytes32(s.xdg_wm_base_id)
                     /\ Word(2, 2) = Bytes32(s.xdg_surface_id)
           /\ n >= 3 =>
                /\ Len(wire_out[3].bytes) = 12
                /\ Word(3, 0) = Word(2, 2)
                /\ Word(3, 1) = Bytes32(<<12, 1>>)
                /\ pc # "exited" => Word(3, 2) = Bytes32(s.xdg_toplevel_id)
           /\ n >= 4 =>
                /\ Len(wire_out[4].bytes) = 8
                /\ Word(4, 0) = Word(1, 2)
                /\ Word(4, 1) = Bytes32(<<8, 6>>)

\* The four requests were sent and the loop waits for the next batch.
C23_Witness ==
  /\ pc = "recv"
  /\ Len(wire_out) = 4
  /\ wire_out[1].kind = "create_surface"
  /\ wire_out[4].kind = "commit"
  /\ wire_out[4].result = "full"

(***************************************************************************)
(* C24.  When the next event of the batch is a whole configure event       *)
(* (opcode 0) for the xdg_surface the client created: with a payload of 4  *)
(* bytes, handling it hands exactly one message to send, an ack_configure  *)
(* (opcode 4) for the same object with the same 4 bytes, and when send     *)
(* took it the only change of the application state is surface_state =     *)
(* ACKED_CONFIGURE; with any other payload size nothing is sent.  When the *)
(* payload size is wrong or the send failed the handler leaves the state   *)
(* as it was and the loop ends with result 0.                              *)
(***************************************************************************)
C24_ConfigureAcked ==
  [][LET object_id == ReadUint32(recv_buffer, buffer_offset).value
         header == ReadUint32(recv_buffer, buffer_offset + 4).value
         serial == [i \in 1..4 |-> ByteAt(recv_buffer, buffer_offset + 7 + i)]
         Outcomes == HandleWaylandEvent(
                       s, next_id, recv_buffer,
                       ReadWaylandEvent(recv_buffer, buffer_offset).event)
     IN  (/\ pc = "batch"
          /\ ~IsZero32(s.xdg_surface_id)
          /\ object_id = s.xdg_surface_id
          /\ header[2] = XDG_SURFACE_CONFIGURE_EVENT
          /\ header[1] >= 8
          /\ buffer_offset + 4 * ((header[1] + 3) \div 4) - 1 <= bytes_read
          /\ should_exit' = should_exit) =>
           /\ handled' = handled + 1
           /\ next_id' = next_id
           /\ \A o \in Outcomes : o.ret = 0 => o.s = s
           /\ IF header[1] = 12
              THEN /\ Len(wire_out') = 1
                   /\ wire_out'[1].kind = "ack_configure"
                   /\ ~wire_out'[1].fd
                   /\ wire_out'[1].bytes
                        = Bytes32(object_id) \o Bytes32(<<12, 4>>) \o serial
                   /\ count' = [count EXCEPT !["ack_configure"] = @ + 1]
                   /\ IF wire_out'[1].result = "full"
                      THEN /\ pc' # "exited"
                           /\ s' = [s EXCEPT
                                      !.surface_state = ACKED_CONFIGURE]
                      ELSE pc' = "exited" /\ result' = 0
              ELSE /\ wire_out' = <<>>
                   /\ count' = count
                   /\ pc' = "exited"
                   /\ result' = 0]_vars

\* The configure event with serial 42 was acknowledged after a frame had
\* been rendered.
C24_Witness ==
  /\ pc \in {"batch", "post"}
  /\ ~IsZero32(s.xdg_surface_id)
  /\ s.surface_state = ACKED_CONFIGURE
  /\ count["attach"] >= 1
  /\ Len(wire_out) = 1
  /\ wire_out[1].kind = "ack_configure"
  /\ wire_out[1].result = "full"
  /\ wire_out[1].bytes[9] = 42

(***************************************************************************)
(* C25.  When the next event of the batch is a whole configure event       *)
(* (opcode 0) for the xdg_toplevel the client created, handling it sends   *)
(* nothing, allocates nothing and leaves the application state (surface    *)
(* state and object ids included) as it was; when the event has a payload  *)
(* the run goes on.                                                        *)
(***************************************************************************)
C25_ToplevelConfigureInert ==
  [][LET object_id == ReadUint32(recv_buffer, buffer_offset).value
         header == ReadUint32(recv_buffer, buffer_offset + 4).value
     IN  (/\ pc = "batch"
          /\ ~IsZero32(s.xdg_toplevel_id)
          /\ object_id = s.xdg_toplevel_id
          /\ header[2] = XDG_TOPLEVEL_CONFIGURE_EVENT
          /\ header[1] >= 8
          /\ buffer_offset + 4 * ((header[1] + 3) \div 4) - 1 <= bytes_read
          /\ should_exit' = should_exit) =>
           /\ wire_out' = <<>>
           /\ count' = count
           /\ next_id' = next_id
           /\ returned' = returned
           /\ s' = s
           /\ handled' = handled + 1
           /\ header[1] > 8 => pc' # "exited"]_vars

\* An xdg_toplevel.configure was handled, first of its batch, before the
\* xdg_surface was configured.
C25_Witness ==
  /\ pc = "batch"
  /\ s.surface_state = NONE
  /\ ~IsZero32(s.xdg_toplevel_id)
  /\ buffer_offset = 20
  /\ ReadUint32(recv_buffer, 0).value = s.xdg_toplevel_id
  /\ ReadUint32(recv_buffer, 4).value = <<20, XDG_TOPLEVEL_CONFIGURE_EVENT>>
  /\ wire_out = <<>>

(***************************************************************************)
(* C26.  A step sends create_pool, create_buffer or attach only after a    *)
(* batch, with the surface state at ACKED_CONFIGURE.  From the first of    *)
(* them on, what the step hands to send is: create_pool if shm_pool_id was *)
(* 0, create_buffer if frame_buffer_id was 0, attach (buffer id, 0, 0),    *)
(* commit, cut after the first send that failed.  The state becomes        *)
(* SURFACE_ATTACHED when all were sent; a failure ends the loop with       *)
(* result 0.  Over a run create_pool and create_buffer are each sent at    *)
(* most once, frame_buffer_id changes only to the id of a create_buffer    *)
(* request, and every attach names frame_buffer_id.                        *)
(***************************************************************************)
C26_RenderSequence ==
  [][LET out == wire_out'
         Render == {i \in 1..Len(out) :
                      out[i].kind \in {"create_pool", "create_buffer",
                                       "attach"}}
         first == CHOOSE i \in Render : \A j \in Render : i <= j
         expected ==
           (IF IsZero32(s.shm_pool_id) THEN <<"create_pool">> ELSE <<>>)
           \o (IF IsZero32(s.frame_buffer_id) THEN <<"create_buffer">>
               ELSE <<>>)
           \o <<"attach", "commit">>
         sent == Len(out) - first + 1
         Word(i, k) == [j \in 1..4 |-> out[i].bytes[4 * k + j]]
         Took(i) == IF out[i].kind = "create_pool"
                    THEN out[i].result # "error"
                    ELSE out[i].result = "full"
         Created == {i \in 1..Len(out) : out[i].kind = "create_buffer"}
     IN  /\ count'["create_pool"] <= 1
         /\ count'["create_buffer"] <= 1
         /\ (pc' # "exited" /\ s'.frame_buffer_id # s.frame_buffer_id) =>
              \E i \in Created : Word(i, 2) = Bytes32(s'.frame_buffer_id)
         /\ Render # {} =>
              /\ pc = "post"
              /\ s.surface_state = ACKED_CONFIGURE
              /\ sent <= Len(expected)
              /\ \A i \in 1..sent : out[first + i - 1].kind = expected[i]
              /\ \A i \in first..(Len(out) - 1) : Took(i)
              /\ sent < Len(expected) => ~Took(Len(out))
              /\ ~Took(Len(out)) => pc' = "exited" /\ result' = 0
              /\ (Took(Len(out)) /\ pc' # "exited") =>
                   s'.surface_state = SURFACE_ATTACHED
              /\ \A i \in Render :
                   out[i].kind = "attach" =>
                     /\ Len(out[i].bytes) = 20
                     /\ Word(i, 1) = Bytes32(<<20, 1>>)
                     /\ Word(i, 2)
                          = IF Created # {}
                            THEN Word(CHOOSE c \in Created : TRUE, 2)
                            ELSE Bytes32(s.frame_buffer_id)
                     /\ Word(i, 3) = Bytes32(Zero32)
                     /\ Word(i, 4) = Bytes32(Zero32)
                     /\ pc' # "exited" =>
                          /\ Word(i, 0) = Bytes32(s'.surface_id)
                          /\ Word(i, 2) = Bytes32(s'.frame_buffer_id)]_vars

\* A second frame was rendered: attach and commit alone, with the buffer
\* of the first frame.
C26_Witness ==
  /\ pc = "recv"
  /\ s.surface_state = SURFACE_ATTACHED
  /\ count["attach"] = 2
  /\ count["create_buffer"] = 1
  /\ Len(wire_out) = 2
  /\ wire_out[1].kind = "attach"
  /\ wire_out[2].kind = "commit"

(***************************************************************************)
(* C28.  When the next event of the batch is the announcement of a global  *)
(* (name, label, version) by the registry: for a label among wl_shm,       *)
(* wl_compositor and xdg_wm_base, handling it allocates one id and hands   *)
(* exactly one message to send, a bind (opcode 0) for the registry with    *)
(* the payload name, label as a string, version, new id; when send took it *)
(* the only change of the application state is that the role of the label  *)
(* holds the new id and the run goes on, otherwise the loop ends with      *)
(* result 0.  For any other label nothing is sent, nothing is allocated,   *)
(* the state is unchanged and the run goes on.                             *)
(***************************************************************************)
C28_GlobalBound ==
  [][\A g \in Globals :
       LET payload == GlobalPayload(g.name, g.label, g.version)
           event == Wire(s.registry_id, WAYLAND_REGISTRY_GLOBAL_EVENT, payload)
           role == IF g.label = WL_SHM THEN "shm_id"
                   ELSE IF g.label = WL_COMPOSITOR THEN "compositor_id"
                   ELSE "xdg_wm_base_id"
       IN  (/\ pc = "batch"
            /\ ~IsZero32(s.registry_id)
            /\ ByteAt(recv_buffer, buffer_offset + 8) = g.name
            /\ buffer_offset + Len(payload) + 8 <= bytes_read
            /\ event = [i \in 1..(Len(payload) + 8) |->
                          ByteAt(recv_buffer, buffer_offset + i - 1)]
            /\ should_exit' = should_exit) =>
             /\ handled' = handled + 1
             /\ IF g.label \in {WL_SHM, WL_COMPOSITOR, XDG_WM_BASE}
                THEN /\ next_id' = Add32(next_id, 1)
                     /\ returned' = Append(returned, next_id')
                     /\ Len(wire_out') = 1
                     /\ wire_out'[1].kind = "bind"
                     /\ ~wire_out'[1].fd
                     /\ wire_out'[1].bytes
                          = Bytes32(s.registry_id)
                              \o Bytes32(<<Len(payload) + 12,
                                           WAYLAND_REGISTRY_BIND_OPCODE>>)
                              \o payload \o Bytes32(next_id')
                     /\ count' = [count EXCEPT !["bind"] = @ + 1]
                     /\ IF wire_out'[1].result = "full"
                        THEN /\ pc' # "exited"
                             /\ s' = [s EXCEPT ![role] = next_id']
                        ELSE pc' = "exited" /\ result' = 0
                ELSE /\ wire_out' = <<>>
                     /\ count' = count
                     /\ next_id' = next_id
                     /\ returned' = returned
                     /\ s' = s
                     /\ pc' # "exited"]_vars

\* The xdg_wm_base was bound, after a wl_seat was announced and ignored.
C28_Witness ==
  /\ pc \in {"batch", "post"}
  /\ handled >= 2
  /\ count["bind"] = 1
  /\ Len(wire_out) = 1
  /\ wire_out[1].kind = "bind"
  /\ wire_out[1].result = "full"
  /\ ~IsZero32(s.xdg_wm_base_id)
  /\ s.xdg_wm_base_id = returned[Len(returned)]

(***************************************************************************)
(* C27.  In every run the number of attach requests is at most the number  *)
(* of ack_configure requests.  The step after a batch that left the        *)
(* surface state at SURFACE_ATTACHED sends no attach request; it sends     *)
(* nothing at all when the surface exists, and otherwise at most the       *)
(* requests that create the surface, with the commit that follows them.    *)
(***************************************************************************)
C27_NoRepeatWithoutAck ==
  [][/\ count'["attach"] <= count'["ack_configure"]
     /\ (pc = "post" /\ s.surface_state = SURFACE_ATTACHED) =>
          /\ \A i \in 1..Len(wire_out') : wire_out'[i].kind # "attach"
          /\ ~IsZero32(s.surface_id) => wire_out' = <<>>
          /\ \A i \in 1..Len(wire_out') :
               wire_out'[i].kind = "commit" =>
                 i = 4 /\ wire_out'[1].kind = "create_surface"]_vars

\* After the frame was rendered a batch without configure event was
\* handled, and the step after it sent nothing.
C27_Witness ==
  /\ pc = "recv"
  /\ s.surface_state = SURFACE_ATTACHED
  /\ ~IsZero32(s.surface_id)
  /\ count["attach"] = 1
  /\ count["ack_configure"] = 1
  /\ should_exit = 0
  /\ wire_out = <<>>

(***************************************************************************)
(* C27, as the specification words it: once a frame was rendered (the      *)
(* surface state is SURFACE_ATTACHED), the step after a batch that left    *)
(* the state there sends neither an attach nor a commit request.           *)
(***************************************************************************)
C27_Original ==
  [][(pc = "post" /\ s.surface_state = SURFACE_ATTACHED) =>
       \A i \in 1..Len(wire_out') :
         wire_out'[i].kind \notin {"attach", "commit"}]_vars

(***************************************************************************)
(* The payload bytes HandleWaylandEvent reads of the event e it is passed: *)
(* their number, counted from the start of the payload to the last byte    *)
(* read (0 when it reads none).  A string is read up to its terminator, by *)
(* printf and strcmp.                                                      *)
(***************************************************************************)
\* ReadWaylandString at offset at of the payload, and what is read after it.
StringRead(buffer, e, at, after) ==
  LET str == ReadWaylandString(buffer, e.payload + at)
      chars == IF str.string = NULL THEN 0
               ELSE Len(CString(buffer, str.string)) + 1
  IN  IF str.far THEN RECV_BUFFER_SIZE
      ELSE Max(at + 4 + chars, (str.offset - e.payload) + after)

PayloadRead(st, buffer, e) ==
  IF e.object_id = st.registry_id /\ e.opcode = WAYLAND_REGISTRY_GLOBAL_EVENT
  THEN IF e.payload = NULL THEN 4 ELSE StringRead(buffer, e, 4, 4)
  ELSE IF e.object_id = U32(WAYLAND_DISPLAY_OBJECT_ID)
          /\ e.opcode = WAYLAND_DISPLAY_ERROR_EVENT
  THEN IF e.payload_size <= 12 THEN 0 ELSE StringRead(buffer, e, 8, 0)
  ELSE IF e.object_id = st.xdg_wm_base_id /\ e.opcode = XDG_WM_PING_EVENT
  THEN IF e.payload_size # 4 THEN 0 ELSE 4
  ELSE IF e.object_id = st.xdg_surface_id
          /\ e.opcode = XDG_SURFACE_CONFIGURE_EVENT
  THEN IF e.payload_size # 4 THEN 0 ELSE 4
  ELSE IF e.object_id = st.xdg_toplevel_id
          /\ e.opcode = XDG_TOPLEVEL_CONFIGURE_EVENT
  THEN 8
  ELSE IF e.object_id = st.shm_id /\ e.opcode = WAYLAND_SHM_FORMAT_EVENT
  THEN IF e.payload_size # 4 THEN 0 ELSE 4
  ELSE 0

(***************************************************************************)
(* C29, as the specification words it: of an event that is passed to the   *)
(* handler, the handler reads no payload byte at or past payload_size, and *)
(* none at all when payload_size is 0.                                     *)
(***************************************************************************)
C29_Original ==
  LET r == ReadWaylandEvent(recv_buffer, buffer_offset)
  IN  (pc = "batch" /\ ~r.exit /\ r.offset - 1 <= bytes_read) =>
        PayloadRead(s, recv_buffer, r.event) <= r.event.payload_size

(***************************************************************************)
(* C30, as the specification words it: when the header of the next message *)
(* of the batch, or its padded payload, ends past the bytes recv returned, *)
(* the message is not passed to HandleWaylandEvent and the run ends there. *)
(***************************************************************************)
C30_Original ==
  [][LET r == ReadWaylandEvent(recv_buffer, buffer_offset)
     IN  (/\ pc = "batch"
          /\ \/ buffer_offset + 8 > bytes_read
             \/ ~r.exit /\ r.offset > bytes_read
          /\ should_exit' = should_exit) =>
           handled' = handled /\ pc' = "exited"]_vars

(***************************************************************************)
(* The run in which the compositor closes the connection and no signal     *)
(* arrives.  From the end of the stream on, every recv returns 0 at once.  *)
(***************************************************************************)
EndOfStream == "recv() = 0"

\* recv has returned 0 before.
Closed == \E i \in 1..Len(sys) : sys[i] = EndOfStream

\* recv while the connection is open: an error, or a batch.
RecvOpen ==
  /\ ~Closed
  /\ Recv
  /\ pc' # "post"

\* recv returns 0: ProcessWaylandEvents is called with a buffer_size of 0,
\* does not enter its loop and returns 1.
RecvClosed ==
  /\ pc = "recv"
  /\ recv_buffer' = Buffer(RECV_BUFFER_SIZE, 0)
  /\ bytes_read' = 0
  /\ buffer_offset' = 0
  /\ s' = s
  /\ pc' = "post"
  /\ sys' = IF Closed THEN sys ELSE Append(sys, EndOfStream)
  /\ ApplyNothing
  /\ UNCHANGED <<result, exit_code, should_exit, handled, received>>
  /\ UNCHANGED codec

NextClosed ==
  \/ MainConnect
  \/ MainOpenShm
  \/ MainGetRegistry
  \/ MainSigaction
  \/ EnterLoop
  \/ RecvOpen
  \/ RecvClosed
  \/ ProcessWaylandEvent
  \/ PostBatch

\* The process has a step to take: it has not ended and, where it is in
\* recv, the call returns because the stream is at its end.
RunnableClosed ==
  /\ pc # "exited"
  /\ pc = "recv" => Closed

ScheduledClosed ==
  /\ RunnableClosed
  /\ pc' \in Places
  /\ handled' \in {handled, handled + 1}
  /\ <<pc', handled'>> # <<pc, handled>>

\* The process is scheduled as long as it has a step to take.
SpecClosed ==
  Init /\ [][NextClosed]_vars /\ WF_<<pc, handled>>(ScheduledClosed)

(***************************************************************************)
(* C31, as the specification words it: once recv has returned 0 the event  *)
(* loop eventually ends, without a signal.                                 *)
(***************************************************************************)
C31_Original == Closed ~> (pc = "exited")

(***************************************************************************)
(* C32, as the specification words it: every message handed to send is     *)
(* addressed to an object id that is not 0 and is either the display (1)   *)
(* or an identifier NextWaylandID has returned before; so no pong and no   *)
(* ack_configure goes to object 0.                                         *)
(***************************************************************************)
C32_Original ==
  \A i \in 1..Len(wire_out) :
    LET target == SubSeq(wire_out[i].bytes, 1, 4)
    IN  /\ target # Bytes32(Zero32)
        /\ \/ target = Bytes32(U32(WAYLAND_DISPLAY_OBJECT_ID))
           \/ \E j \in 1..Len(returned) : target = Bytes32(returned[j])

(***************************************************************************)
(* C33, as the specification words it: while the run goes on, the surface  *)
(* state is ACKED_CONFIGURE, or a create_pool, create_buffer or attach     *)
(* request was sent, only when the surface, the xdg_surface and the        *)
(* top-level all have their identifiers.                                   *)
(***************************************************************************)
C33_Original ==
  (/\ pc # "exited"
   /\ \/ s.surface_state = ACKED_CONFIGURE
      \/ count["create_pool"] > 0
      \/ count["create_buffer"] > 0
      \/ count["attach"] > 0) =>
    /\ ~IsZero32(s.surface_id)
    /\ ~IsZero32(s.xdg_surface_id)
    /\ ~IsZero32(s.xdg_toplevel_id)

(***************************************************************************)
(* C34, as the specification words it: once shm_id, compositor_id or       *)
(* xdg_wm_base_id holds an identifier, the field keeps it in every step    *)
(* after which the run goes on.                                            *)
(***************************************************************************)
C34_Original ==
  [][\A role \in {"shm_id", "compositor_id", "xdg_wm_base_id"} :
       (~IsZero32(s[role]) /\ pc' # "exited") => s'[role] = s[role]]_vars

(***************************************************************************)
(* C35.  The identifiers NextWaylandID has returned are 2, 3, 4, ... in    *)
(* that order, and the requests a step hands to send carry, as their new   *)
(* id and in send order, the identifiers the step allocated: none is       *)
(* skipped, repeated or sent out of order.  An identifier is left unsent   *)
(* only by the last allocation of a run, and a request the send of which   *)
(* returned -1 is the last one of the run.                                 *)
(***************************************************************************)
C35_DenseIds ==
  [][LET Carriers == Kinds \ {"attach", "commit", "pong", "ack_configure"}
         NewId(m) == IF m.kind = "bind"
                     THEN SubSeq(m.bytes, Len(m.bytes) - 3, Len(m.bytes))
                     ELSE SubSeq(m.bytes, 9, 12)
         fresh == SubSeq(returned', Len(returned) + 1, Len(returned'))
         sent == SelectSeq(wire_out', LAMBDA m : m.kind \in Carriers)
     IN  /\ \A i \in 1..Len(returned') : returned'[i] = U32(i + 1)
         /\ Len(sent) <= Len(fresh)
         /\ \A i \in 1..Len(sent) : NewId(sent[i]) = Bytes32(fresh[i])
         /\ Len(sent) < Len(fresh) =>
              pc' = "exited" /\ Len(fresh) = Len(sent) + 1
         /\ \A i \in 1..Len(sent) :
              sent[i].result = "error" => i = Len(sent) /\ pc' = "exited"]_vars

\* The first frame was rendered: the pool and the buffer carry the eighth
\* and the ninth identifier of the run.
C35_Witness ==
  /\ pc = "recv"
  /\ Len(returned) = 9
  /\ Len(wire_out) = 4
  /\ wire_out[1].kind = "create_pool"
  /\ SubSeq(wire_out[1].bytes, 9, 12) = Bytes32(U32(9))
  /\ wire_out[2].kind = "create_buffer"
  /\ SubSeq(wire_out[2].bytes, 9, 12) = Bytes32(U32(10))

(***************************************************************************)
(* C36.  A bind request handed to send fits its staging buffers: its       *)
(* payload (name, string, version, new id) is at most 248 bytes, the       *)
(* message with its header at most 256 bytes, and the size field is the    *)
(* length of the message.                                                  *)
(***************************************************************************)
C36_BindFits ==
  \A i \in 1..Len(wire_out) :
    LET bytes == wire_out[i].bytes
        size == bytes[7] + 256 * bytes[8]
    IN  wire_out[i].kind = "bind" =>
          /\ Len(bytes) >= 8
          /\ size - 8 <= 248
          /\ size <= 256
          /\ Len(bytes) = size

\* The longest bind of the run was sent: wl_compositor, 32 bytes of payload.
C36_Witness ==
  /\ pc \in {"batch", "post"}
  /\ Len(wire_out) = 1
  /\ wire_out[1].kind = "bind"
  /\ wire_out[1].result = "full"
  /\ Len(wire_out[1].bytes) = 40
  /\ ~IsZero32(s.compositor_id)

(***************************************************************************)
(* C37.  Every message handed to send or sendmsg has a size field that is  *)
(* at least 8 and a multiple of 4, and is as long as its size field says:  *)
(* its payload length is a multiple of 4 and WriteWaylandMessage had no    *)
(* padding to leave behind it.                                             *)
(***************************************************************************)
C37_SentSizesAligned ==
  \A i \in 1..Len(wire_out) :
    LET bytes == wire_out[i].bytes
        size == bytes[7] + 256 * bytes[8]
    IN  /\ Len(bytes) >= 8
        /\ size >= 8
        /\ size % 4 = 0
        /\ (size - 8) % 4 = 0
        /\ Len(bytes) = size

\* The bind of xdg_wm_base was sent: an 11-character name, which the
\* encoder pads with its terminator alone to 12 bytes.
C37_Witness ==
  /\ pc \in {"batch", "post"}
  /\ Len(wire_out) = 1
  /\ wire_out[1].kind = "bind"
  /\ wire_out[1].result = "full"
  /\ Len(wire_out[1].bytes) = 36
  /\ ~IsZero32(s.xdg_wm_base_id)

====
